---- MODULE Spec2Model ----
(***************************************************************************)
(* GradTrackAI admission-analysis engine (server/routes.ts).               *)
(*                                                                         *)
(* The engine is a pipeline of pure functions.  Every function is an       *)
(* operator of this module, translated statement by statement; every       *)
(* specification draws the arguments of one entry point from bounded sets  *)
(* in its initial states and has one action that applies the function.     *)
(*                                                                         *)
(* Numbers.  JavaScript numbers are IEEE-754 binary64 values.  SAT, ACT,   *)
(* course counts and percentages are small integers, which binary64        *)
(* represents exactly, and are modelled by TLA+ integers.  Grade points    *)
(* are sums of decimal fractions (3.8, 2.6, 0.1 ...) compared with         *)
(* thresholds that the sums can hit exactly, so their rounding decides     *)
(* letter grades; they are modelled bit for bit (section "binary64").      *)
(* A decimal quantity d.d is written in tenths: 38 stands for the literal  *)
(* 3.8.                                                                    *)
(*                                                                         *)
(* Strings are sequences of one-character strings, so that includes(),     *)
(* toLowerCase(), trim() and parseInt() can be computed.                   *)
(***************************************************************************)
EXTENDS Integers, Sequences, FiniteSets, TLC

(***************************************************************************)
(* binary64                                                                *)
(*                                                                         *)
(* A value is [s, hi, lo]: sign s (1 or -1) and magnitude                  *)
(* (hi * 2^30 + lo) * 2^-56 with 0 <= lo < 2^30.  Every value the grade    *)
(* computation produces is a multiple of 2^-56 below 16, so the magnitude  *)
(* has at most 60 bits; a binary64 keeps the leading 53 of them.           *)
(***************************************************************************)
Limb == 2^30

Zero == [s |-> 1, hi |-> 0, lo |-> 0]

\* round-to-nearest, ties-to-even, of the exact magnitude (hi, lo)
Round53(s, hi, lo) ==
  LET DropBits(h) ==
        IF h < 2^23 THEN 0
        ELSE IF h < 2^24 THEN 1
        ELSE IF h < 2^25 THEN 2
        ELSE IF h < 2^26 THEN 3
        ELSE IF h < 2^27 THEN 4
        ELSE IF h < 2^28 THEN 5
        ELSE IF h < 2^29 THEN 6
        ELSE 7
  IN
  LET q    == 2^DropBits(hi)
      r    == lo % q
      base == lo - r
      up   == \/ 2 * r > q
              \/ 2 * r = q /\ (lo \div q) % 2 = 1
      lo2  == IF up THEN base + q ELSE base
  IN  IF lo2 = Limb THEN [s |-> s, hi |-> hi + 1, lo |-> 0]
      ELSE [s |-> s, hi |-> hi, lo |-> lo2]

MagLess(x, y) == x.hi < y.hi \/ (x.hi = y.hi /\ x.lo < y.lo)

\* x < y on the signed values
FLess(x, y) ==
  LET xz == x.hi = 0 /\ x.lo = 0
      yz == y.hi = 0 /\ y.lo = 0
  IN  IF xz /\ yz THEN FALSE
      ELSE IF x.s = 1 /\ y.s = 1 THEN MagLess(x, y)
      ELSE IF x.s = -1 /\ y.s = -1 THEN MagLess(y, x)
      ELSE x.s = -1

\* x >= y
FGe(x, y) == ~FLess(x, y)

\* x + y, correctly rounded
FAdd(x, y) ==
  IF x.s = y.s
  THEN LET lo == x.lo + y.lo
           c  == IF lo >= Limb THEN 1 ELSE 0
       IN  Round53(x.s, x.hi + y.hi + c, lo - c * Limb)
  ELSE LET big == IF MagLess(x, y) THEN y ELSE x
           sml == IF MagLess(x, y) THEN x ELSE y
           b   == IF big.lo < sml.lo THEN 1 ELSE 0
           hi  == big.hi - sml.hi - b
           lo  == big.lo + b * Limb - sml.lo
       IN  IF hi = 0 /\ lo = 0 THEN Zero ELSE Round53(big.s, hi, lo)

\* x - y
FSub(x, y) == FAdd(x, [y EXCEPT !.s = -y.s])

\* Math.max
FMax(x, y) == IF FLess(x, y) THEN y ELSE x

\* Math.floor
FFloor(x) ==
  LET whole == x.hi - (x.hi % 2^26)
      exact == x.hi % 2^26 = 0 /\ x.lo = 0
  IN  IF x.s = 1 \/ exact THEN [s |-> x.s, hi |-> whole, lo |-> 0]
      ELSE [s |-> -1, hi |-> whole + 2^26, lo |-> 0]

\* x % 1 (the remainder has the sign of x and is exact)
FMod1(x) ==
  LET hi == x.hi % 2^26
  IN  IF hi = 0 /\ x.lo = 0 THEN Zero ELSE [s |-> x.s, hi |-> hi, lo |-> x.lo]

\* the integer n as a binary64 (|n| < 16)
FInt(n) == IF n >= 0 THEN [s |-> 1, hi |-> n * 2^26, lo |-> 0]
           ELSE [s |-> -1, hi |-> (-n) * 2^26, lo |-> 0]

\* The binary64 nearest to the decimal t/10 (a numeric literal such as 3.8,
\* or the result of parseFloat on "3.8"): the 53-bit quotient
\* t * 2^(52-e) / 10 by long division, rounded on the remainder, then
\* shifted to units of 2^-56.
Dec(t) ==
  LET Exp10(u) ==
        IF u >= 80 THEN 3
        ELSE IF u >= 40 THEN 2
        ELSE IF u >= 20 THEN 1
        ELSE IF u >= 10 THEN 0
        ELSE IF u >= 5 THEN -1
        ELSE IF u >= 3 THEN -2
        ELSE IF u >= 2 THEN -3
        ELSE -4
  IN
  IF t = 0 THEN Zero
  ELSE
  LET e   == Exp10(t)
      n1  == t * 2^(22 - e)
      qh  == n1 \div 10
      r1  == n1 % 10
      q1  == (r1 * 2^15) \div 10
      r2  == (r1 * 2^15) % 10
      q2  == (r2 * 2^15) \div 10
      r3  == (r2 * 2^15) % 10
      ql  == q1 * 2^15 + q2
      up  == r3 > 5 \/ (r3 = 5 /\ ql % 2 = 1)
      ql2 == IF up THEN ql + 1 ELSE ql
      mh  == IF ql2 = Limb THEN qh + 1 ELSE qh
      ml  == IF ql2 = Limb THEN 0 ELSE ql2
      sh  == e + 4
  IN  [s  |-> 1,
       hi |-> mh * 2^sh + (ml \div 2^(30 - sh)),
       lo |-> (ml % 2^(30 - sh)) * 2^sh]

(***************************************************************************)
(* Strings and parsing                                                     *)
(***************************************************************************)
Digits == <<"0","1","2","3","4","5","6","7","8","9">>

\* String.prototype.toLowerCase
ToLowerCase(str) ==
  LET LowerChar(c) ==
        LET Upper == <<"A","B","C","D","E","F","G","H","I","J","K","L","M",
                       "N","O","P","Q","R","S","T","U","V","W","X","Y","Z">>
            Lower == <<"a","b","c","d","e","f","g","h","i","j","k","l","m",
                       "n","o","p","q","r","s","t","u","v","w","x","y","z">>
        IN
        IF \E i \in 1..26 : Upper[i] = c
        THEN Lower[CHOOSE i \in 1..26 : Upper[i] = c]
        ELSE c
  IN  [i \in 1..Len(str) |-> LowerChar(str[i])]

\* String.prototype.includes
Includes(str, pat) ==
  \E i \in 0..(Len(str) - Len(pat)) : SubSeq(str, i + 1, i + Len(pat)) = pat

\* String.prototype.trim
Trim(str) ==
  LET idx == {i \in 1..Len(str) : str[i] # " "}
  IN  IF idx = {} THEN <<>>
      ELSE SubSeq(str, CHOOSE i \in idx : \A j \in idx : i <= j,
                       CHOOSE i \in idx : \A j \in idx : j <= i)

IsDigit(c) == \E i \in 1..10 : Digits[i] = c
DigitVal(c) == (CHOOSE i \in 1..10 : Digits[i] = c) - 1

\* value of the longest prefix of digits of str, read after the digits acc
RECURSIVE DigitsValue(_, _)
DigitsValue(str, acc) ==
  IF str = <<>> \/ ~IsDigit(Head(str)) THEN acc
  ELSE DigitsValue(Tail(str), 10 * acc + DigitVal(Head(str)))

\* parseInt(str), radix 10: leading blanks and a sign are skipped, the
\* longest prefix of digits is read; the result is NaN when there is none.
\* A number is [nan, val].
parseInt(str) ==
  LET idx  == {i \in 1..Len(str) : str[i] # " "}
      body == IF idx = {} THEN <<>>
              ELSE SubSeq(str, CHOOSE i \in idx : \A j \in idx : i <= j, Len(str))
      neg  == body # <<>> /\ Head(body) = "-"
      num  == IF body # <<>> /\ Head(body) \in {"-", "+"} THEN Tail(body) ELSE body
  IN  IF num = <<>> \/ ~IsDigit(Head(num)) THEN [nan |-> TRUE, val |-> 0]
      ELSE [nan |-> FALSE,
            val |-> IF neg THEN 0 - DigitsValue(num, 0) ELSE DigitsValue(num, 0)]

\* x || d on a parsed number: NaN and 0 are falsy
OrDefault(x, d) == IF x.nan \/ x.val = 0 THEN d ELSE x.val

\* x >= n on a parsed number: false when x is NaN
NumGe(x, n) == ~x.nan /\ x.val >= n

\* str || d on a string: the empty string is falsy
StrOr(str, d) == IF str = <<>> THEN d ELSE str

(***************************************************************************)
(* Letter grades                                                           *)
(***************************************************************************)
Grades == {"A+", "A", "A-", "B+", "B", "B-", "C+", "C", "C-", "D+", "D"}

(***************************************************************************)
(* calculateAcademicGrade                                                  *)
(*                                                                         *)
(* gpa and weightedGpa are binary64 values, sat, act and apCourses         *)
(* integers, courseRigor a string.  The operators below are the            *)
(* successive statements on the local variable points.                     *)
(***************************************************************************)

\* GpaPoints with the addends of the 3.9 and 3.7 branches exchanged
GpaPointsSwapped(gpa) ==
  IF FGe(gpa, Dec(40)) THEN Dec(40)
  ELSE IF FGe(gpa, Dec(39)) THEN Dec(34)
  ELSE IF FGe(gpa, Dec(38)) THEN Dec(36)
  ELSE IF FGe(gpa, Dec(37)) THEN Dec(38)
  ELSE IF FGe(gpa, Dec(36)) THEN Dec(32)
  ELSE IF FGe(gpa, Dec(35)) THEN Dec(30)
  ELSE IF FGe(gpa, Dec(33)) THEN Dec(25)
  ELSE IF FGe(gpa, Dec(30)) THEN Dec(20)
  ELSE IF FGe(gpa, Dec(27)) THEN Dec(15)
  ELSE IF FGe(gpa, Dec(23)) THEN Dec(10)
  ELSE Dec(5)

\* GPA evaluation: the addend of the first if-chain
GpaPoints(gpa) ==
  IF FGe(gpa, Dec(40)) THEN Dec(40)
  ELSE IF FGe(gpa, Dec(39)) THEN Dec(38)
  ELSE IF FGe(gpa, Dec(38)) THEN Dec(36)
  ELSE IF FGe(gpa, Dec(37)) THEN Dec(34)
  ELSE IF FGe(gpa, Dec(36)) THEN Dec(32)
  ELSE IF FGe(gpa, Dec(35)) THEN Dec(30)
  ELSE IF FGe(gpa, Dec(33)) THEN Dec(25)
  ELSE IF FGe(gpa, Dec(30)) THEN Dec(20)
  ELSE IF FGe(gpa, Dec(27)) THEN Dec(15)
  ELSE IF FGe(gpa, Dec(23)) THEN Dec(10)
  ELSE Dec(5)

\* SAT evaluation: the addend of the second if-chain (nothing added for 0)
SatPoints(sat) ==
  IF sat >= 1550 THEN Dec(30)
  ELSE IF sat >= 1500 THEN Dec(28)
  ELSE IF sat >= 1450 THEN Dec(26)
  ELSE IF sat >= 1400 THEN Dec(24)
  ELSE IF sat >= 1350 THEN Dec(22)
  ELSE IF sat >= 1300 THEN Dec(20)
  ELSE IF sat >= 1250 THEN Dec(18)
  ELSE IF sat >= 1200 THEN Dec(16)
  ELSE IF sat >= 1150 THEN Dec(14)
  ELSE IF sat >= 1100 THEN Dec(12)
  ELSE IF sat >= 1050 THEN Dec(10)
  ELSE IF sat >= 1000 THEN Dec(8)
  ELSE IF sat > 0 THEN Dec(5)
  ELSE Zero

\* ACT evaluation: the local actPoints
ActPoints(act) ==
  IF act >= 35 THEN Dec(30)
  ELSE IF act >= 34 THEN Dec(28)
  ELSE IF act >= 33 THEN Dec(26)
  ELSE IF act >= 32 THEN Dec(24)
  ELSE IF act >= 31 THEN Dec(22)
  ELSE IF act >= 30 THEN Dec(20)
  ELSE IF act >= 29 THEN Dec(18)
  ELSE IF act >= 28 THEN Dec(16)
  ELSE IF act >= 27 THEN Dec(14)
  ELSE IF act >= 26 THEN Dec(12)
  ELSE IF act >= 25 THEN Dec(10)
  ELSE IF act >= 24 THEN Dec(8)
  ELSE IF act > 0 THEN Dec(5)
  ELSE Zero

\* "Use whichever is higher, SAT points or ACT points": points holds
\* GPA points + SAT points on entry
TestScoreStep(points, sat, act) ==
  IF sat = 0 /\ act = 0
  THEN FSub(points, FInt(1))
  ELSE LET lastSatPoints == FMod1(points)
       IN  FAdd(FFloor(points), FMax(ActPoints(act), lastSatPoints))

\* AP/IB courses evaluation
ApPoints(apCourses) ==
  IF apCourses >= 10 THEN Dec(20)
  ELSE IF apCourses >= 8 THEN Dec(18)
  ELSE IF apCourses >= 6 THEN Dec(15)
  ELSE IF apCourses >= 5 THEN Dec(13)
  ELSE IF apCourses >= 4 THEN Dec(11)
  ELSE IF apCourses >= 3 THEN Dec(9)
  ELSE IF apCourses >= 2 THEN Dec(7)
  ELSE IF apCourses >= 1 THEN Dec(5)
  ELSE Zero

\* course rigor evaluation
RigorPoints(courseRigor) ==
  IF courseRigor = "very high" THEN Dec(10)
  ELSE IF courseRigor = "high" THEN Dec(8)
  ELSE IF courseRigor = "medium" THEN Dec(5)
  ELSE IF courseRigor = "low" THEN Dec(2)
  ELSE Zero

\* weighted GPA bonus
WeightedGpaBonus(gpa, weightedGpa) ==
  IF FLess(Zero, weightedGpa)
  THEN LET difference == FSub(weightedGpa, gpa)
       IN  IF FGe(difference, Dec(7)) THEN Dec(5)
           ELSE IF FGe(difference, Dec(5)) THEN Dec(4)
           ELSE IF FGe(difference, Dec(3)) THEN Dec(3)
           ELSE IF FGe(difference, Dec(2)) THEN Dec(2)
           ELSE IF FGe(difference, Dec(1)) THEN Dec(1)
           ELSE Zero
  ELSE Zero

\* the value of points when the letter conversion is reached
AcademicPoints(gpa, weightedGpa, sat, act, apCourses, courseRigor) ==
  LET p1 == FAdd(Zero, GpaPoints(gpa))
      p2 == FAdd(p1, SatPoints(sat))
      p3 == TestScoreStep(p2, sat, act)
      p4 == FAdd(p3, ApPoints(apCourses))
      p5 == FAdd(p4, RigorPoints(courseRigor))
  IN  FAdd(p5, WeightedGpaBonus(gpa, weightedGpa))

\* convert points to letter grade (academic thresholds)
AcademicLetter(points) ==
  IF FGe(points, Dec(95)) THEN "A+"
  ELSE IF FGe(points, Dec(90)) THEN "A"
  ELSE IF FGe(points, Dec(85)) THEN "A-"
  ELSE IF FGe(points, Dec(80)) THEN "B+"
  ELSE IF FGe(points, Dec(75)) THEN "B"
  ELSE IF FGe(points, Dec(70)) THEN "B-"
  ELSE IF FGe(points, Dec(65)) THEN "C+"
  ELSE IF FGe(points, Dec(60)) THEN "C"
  ELSE IF FGe(points, Dec(50)) THEN "C-"
  ELSE IF FGe(points, Dec(40)) THEN "D+"
  ELSE "D"

calculateAcademicGrade(gpa, weightedGpa, sat, act, apCourses, courseRigor) ==
  AcademicLetter(AcademicPoints(gpa, weightedGpa, sat, act, apCourses, courseRigor))

(***************************************************************************)
(* calculateExtracurricularGrade and calculateAwardsGrade                  *)
(***************************************************************************)

\* ActivityCountPoints with every non-empty list earning the full 3 points
ActivityCountPointsFlat(count) ==
  IF count >= 1 THEN Dec(30) ELSE Zero

\* count evaluation of calculateExtracurricularGrade
ActivityCountPoints(count) ==
  IF count >= 8 THEN Dec(30)
  ELSE IF count >= 6 THEN Dec(25)
  ELSE IF count >= 4 THEN Dec(20)
  ELSE IF count >= 3 THEN Dec(15)
  ELSE IF count >= 2 THEN Dec(10)
  ELSE IF count >= 1 THEN Dec(5)
  ELSE Zero

\* AwardCountPoints with the tiers shifted by one award
AwardCountPointsShifted(count) ==
  IF count >= 6 THEN Dec(30)
  ELSE IF count >= 5 THEN Dec(25)
  ELSE IF count >= 4 THEN Dec(20)
  ELSE IF count >= 3 THEN Dec(15)
  ELSE IF count >= 2 THEN Dec(10)
  ELSE Zero

\* count evaluation of calculateAwardsGrade
AwardCountPoints(count) ==
  IF count >= 5 THEN Dec(30)
  ELSE IF count >= 4 THEN Dec(25)
  ELSE IF count >= 3 THEN Dec(20)
  ELSE IF count >= 2 THEN Dec(15)
  ELSE IF count >= 1 THEN Dec(10)
  ELSE Zero

\* if (flag) points += bonus
AddIf(points, flag, bonus) == IF flag THEN FAdd(points, Dec(bonus)) ELSE points

\* the value of points when calculateExtracurricularGrade converts it
ExtracurricularPoints(count, hasLeadership, hasLongTerm, hasSignificantTime, hasMajorRelated) ==
  LET p1 == FAdd(Zero, ActivityCountPoints(count))
      p2 == AddIf(p1, hasLeadership, 30)
      p3 == AddIf(p2, hasLongTerm, 20)
      p4 == AddIf(p3, hasSignificantTime, 10)
  IN  AddIf(p4, hasMajorRelated, 20)

\* the value of points when calculateAwardsGrade converts it
AwardsPoints(count, hasNational, hasState, hasRecent, hasMajorRelated) ==
  LET p1 == FAdd(Zero, AwardCountPoints(count))
      p2 == AddIf(p1, hasNational, 30)
      p3 == AddIf(p2, hasState, 20)
      p4 == AddIf(p3, hasRecent, 10)
  IN  AddIf(p4, hasMajorRelated, 20)

\* ElevenPointLetter with the letters of the 6 and 7 point rows exchanged
ElevenPointLetterSwapped(points) ==
  IF FGe(points, Dec(100)) THEN "A+"
  ELSE IF FGe(points, Dec(90)) THEN "A"
  ELSE IF FGe(points, Dec(80)) THEN "A-"
  ELSE IF FGe(points, Dec(70)) THEN "B"
  ELSE IF FGe(points, Dec(60)) THEN "B+"
  ELSE IF FGe(points, Dec(50)) THEN "B-"
  ELSE IF FGe(points, Dec(40)) THEN "C+"
  ELSE IF FGe(points, Dec(30)) THEN "C"
  ELSE IF FGe(points, Dec(20)) THEN "C-"
  ELSE IF FGe(points, Dec(10)) THEN "D+"
  ELSE "D"

\* convert points to letter grade (the table both functions end with)
ElevenPointLetter(points) ==
  IF FGe(points, Dec(100)) THEN "A+"
  ELSE IF FGe(points, Dec(90)) THEN "A"
  ELSE IF FGe(points, Dec(80)) THEN "A-"
  ELSE IF FGe(points, Dec(70)) THEN "B+"
  ELSE IF FGe(points, Dec(60)) THEN "B"
  ELSE IF FGe(points, Dec(50)) THEN "B-"
  ELSE IF FGe(points, Dec(40)) THEN "C+"
  ELSE IF FGe(points, Dec(30)) THEN "C"
  ELSE IF FGe(points, Dec(20)) THEN "C-"
  ELSE IF FGe(points, Dec(10)) THEN "D+"
  ELSE "D"

calculateExtracurricularGrade(count, hasLeadership, hasLongTerm, hasSignificantTime, hasMajorRelated) ==
  ElevenPointLetter(ExtracurricularPoints(count, hasLeadership, hasLongTerm,
                                          hasSignificantTime, hasMajorRelated))

calculateAwardsGrade(count, hasNational, hasState, hasRecent, hasMajorRelated) ==
  ElevenPointLetter(AwardsPoints(count, hasNational, hasState, hasRecent,
                                 hasMajorRelated))

(***************************************************************************)
(* calculateOverallGrade                                                   *)
(***************************************************************************)
gradeToNumber(grade) ==
  CASE grade = "A+" -> 12
    [] grade = "A"  -> 11
    [] grade = "A-" -> 10
    [] grade = "B+" -> 9
    [] grade = "B"  -> 8
    [] grade = "B-" -> 7
    [] grade = "C+" -> 6
    [] grade = "C"  -> 5
    [] grade = "C-" -> 4
    [] grade = "D+" -> 3
    [] grade = "D"  -> 2
    [] OTHER        -> 1

\* n * x for an integer 0 <= n < 16 and a binary64 x >= 0, correctly rounded
FMulInt(n, x) ==
  LET l0 == x.lo % 2^15
      l1 == x.lo \div 2^15
      p0 == n * l0
      p1 == n * l1 + (p0 \div 2^15)
  IN  Round53(1, n * x.hi + (p1 \div 2^15), (p1 % 2^15) * 2^15 + (p0 % 2^15))

numberToGrade(num) ==
  IF FGe(num, Dec(115)) THEN "A+"
  ELSE IF FGe(num, Dec(105)) THEN "A"
  ELSE IF FGe(num, Dec(95)) THEN "A-"
  ELSE IF FGe(num, Dec(85)) THEN "B+"
  ELSE IF FGe(num, Dec(75)) THEN "B"
  ELSE IF FGe(num, Dec(65)) THEN "B-"
  ELSE IF FGe(num, Dec(55)) THEN "C+"
  ELSE IF FGe(num, Dec(45)) THEN "C"
  ELSE IF FGe(num, Dec(35)) THEN "C-"
  ELSE IF FGe(num, Dec(25)) THEN "D+"
  ELSE "D"

\* the local weightedAverage
WeightedAverage(academic, extracurricular, awards) ==
  FAdd(FAdd(FMulInt(gradeToNumber(academic), Dec(5)),
            FMulInt(gradeToNumber(extracurricular), Dec(3))),
       FMulInt(gradeToNumber(awards), Dec(2)))

calculateOverallGrade(academic, extracurricular, awards) ==
  numberToGrade(WeightedAverage(academic, extracurricular, awards))

(***************************************************************************)
(* determineCollegeTier                                                    *)
(***************************************************************************)
ivyPlus ==
  << <<"h","a","r","v","a","r","d">>, <<"y","a","l","e">>, <<"p","r","i","n","c","e","t","o","n">>, <<"c","o","l","u","m","b","i","a">>, <<"b","r","o","w","n">>,
     <<"d","a","r","t","m","o","u","t","h">>, <<"c","o","r","n","e","l","l">>, <<"p","e","n","n">>, <<"s","t","a","n","f","o","r","d">>, <<"m","i","t">>,
     <<"c","a","l","t","e","c","h">>, <<"c","h","i","c","a","g","o">>, <<"d","u","k","e">>, <<"j","o","h","n","s"," ","h","o","p","k","i","n","s">>,
     <<"n","o","r","t","h","w","e","s","t","e","r","n">> >>

tier1 ==
  << <<"v","a","n","d","e","r","b","i","l","t">>, <<"r","i","c","e">>, <<"e","m","o","r","y">>, <<"g","e","o","r","g","e","t","o","w","n">>,
     <<"c","a","r","n","e","g","i","e"," ","m","e","l","l","o","n">>, <<"b","e","r","k","e","l","e","y">>, <<"u","c","l","a">>, <<"u","s","c">>, <<"m","i","c","h","i","g","a","n">>,
     <<"n","o","t","r","e"," ","d","a","m","e">>, <<"w","a","s","h","i","n","g","t","o","n">>, <<"v","i","r","g","i","n","i","a">>, <<"n","o","r","t","h"," ","c","a","r","o","l","i","n","a">>,
     <<"w","a","k","e"," ","f","o","r","e","s","t">> >>

tier2 ==
  << <<"b","o","s","t","o","n"," ","c","o","l","l","e","g","e">>, <<"t","u","f","t","s">>, <<"w","i","l","l","i","a","m">>, <<"a","m","h","e","r","s","t">>,
     <<"w","i","l","l","i","a","m","s">>, <<"s","w","a","r","t","h","m","o","r","e">>, <<"b","o","w","d","o","i","n">>, <<"p","o","m","o","n","a">>, <<"n","y","u">>,
     <<"b","o","s","t","o","n"," ","u","n","i","v","e","r","s","i","t","y">>, <<"g","e","o","r","g","i","a"," ","t","e","c","h">>, <<"i","l","l","i","n","o","i","s">>, <<"t","e","x","a","s">>,
     <<"w","i","s","c","o","n","s","i","n">>, <<"f","l","o","r","i","d","a">> >>

tier3 ==
  << <<"n","o","r","t","h","e","a","s","t","e","r","n">>, <<"t","u","l","a","n","e">>, <<"v","i","l","l","a","n","o","v","a">>, <<"l","e","h","i","g","h">>,
     <<"o","h","i","o"," ","s","t","a","t","e">>, <<"p","e","n","n"," ","s","t","a","t","e">>, <<"m","i","n","n","e","s","o","t","a">>, <<"p","u","r","d","u","e">>, <<"r","p","i">>,
     <<"p","e","p","p","e","r","d","i","n","e">>, <<"f","l","o","r","i","d","a"," ","s","t","a","t","e">>, <<"s","y","r","a","c","u","s","e">>, <<"t","e","x","a","s"," ","a","&","m">> >>

\* list.some(college => collegeName.includes(college))
SomeIncluded(list, collegeName) ==
  \E i \in 1..Len(list) : Includes(collegeName, list[i])

determineCollegeTierLastMatch(collegeName) ==
  IF SomeIncluded(tier3, collegeName) THEN "tier3"
  ELSE IF SomeIncluded(tier2, collegeName) THEN "tier2"
  ELSE IF SomeIncluded(tier1, collegeName) THEN "tier1"
  ELSE IF SomeIncluded(ivyPlus, collegeName) THEN "ivy-plus"
  ELSE "tier4"

determineCollegeTier(collegeName) ==
  IF SomeIncluded(ivyPlus, collegeName) THEN "ivy-plus"
  ELSE IF SomeIncluded(tier1, collegeName) THEN "tier1"
  ELSE IF SomeIncluded(tier2, collegeName) THEN "tier2"
  ELSE IF SomeIncluded(tier3, collegeName) THEN "tier3"
  ELSE "tier4"

getColorForTier(tier) ==
  CASE tier = "ivy-plus" -> "violet-600"
    [] tier = "tier1"    -> "blue-600"
    [] tier = "tier2"    -> "teal-600"
    [] tier = "tier3"    -> "emerald-600"
    [] OTHER             -> "gray-600"

(***************************************************************************)
(* calculateCollegeChance                                                  *)
(*                                                                         *)
(* profile is [academicGrade, extracurricularGrade, awardsGrade,           *)
(* overallGrade, gpa, sat, act, hasLeadershipRoles, hasNationalAwards]     *)
(* with gpa a binary64.  Every term of the sum is an integer, so           *)
(* finalPercentage is an integer and Math.round returns it unchanged.      *)
(***************************************************************************)

\* base percentage by tier
\* BasePercentage with an ivy-plus base above the tier1 base
BasePercentageLenient(collegeTier) ==
  CASE collegeTier = "ivy-plus" -> 5
    [] collegeTier = "tier1"    -> 4
    [] collegeTier = "tier2"    -> 12
    [] collegeTier = "tier3"    -> 25
    [] OTHER                    -> 40

BasePercentage(collegeTier) ==
  CASE collegeTier = "ivy-plus" -> 1
    [] collegeTier = "tier1"    -> 4
    [] collegeTier = "tier2"    -> 12
    [] collegeTier = "tier3"    -> 25
    [] OTHER                    -> 40

isPublicUniversity(collegeName) ==
  \/ Includes(collegeName, <<" ","s","t","a","t","e"," ">>)
  \/ Includes(collegeName, <<"u","n","i","v","e","r","s","i","t","y"," ","o","f"," ">>)
  \/ Includes(collegeName, <<" ","t","e","c","h">>)

\* StateAdjustedBase with the reduction applied at every tier
StateAdjustedBaseAnyTier(collegeName, collegeTier, state) ==
  LET basePercentage == BasePercentage(collegeTier)
  IN  IF isPublicUniversity(collegeName)
      THEN IF state = "in-state" THEN basePercentage + 15
           ELSE basePercentage - 5
      ELSE basePercentage

\* basePercentage after the state-based adjustment
StateAdjustedBase(collegeName, collegeTier, state) ==
  LET basePercentage == BasePercentage(collegeTier)
  IN  IF isPublicUniversity(collegeName)
      THEN IF state = "in-state" THEN basePercentage + 15
           ELSE IF collegeTier = "tier1" \/ collegeTier = "tier2"
                THEN basePercentage - 5
                ELSE basePercentage
      ELSE basePercentage

academicBonus(grade) ==
  CASE grade = "A+" -> 12
    [] grade = "A"  -> 8
    [] grade = "A-" -> 5
    [] grade = "B+" -> 1
    [] grade = "B"  -> -2
    [] grade = "B-" -> -5
    [] grade = "C+" -> -8
    [] grade = "C"  -> -12
    [] OTHER        -> -15

ecBonus(grade) ==
  CASE grade = "A+" -> 7
    [] grade = "A"  -> 5
    [] grade = "A-" -> 3
    [] grade = "B+" -> 1
    [] grade = "B"  -> -1
    [] grade = "B-" -> -3
    [] grade = "C+" -> -5
    [] grade = "C"  -> -7
    [] OTHER        -> -10

awardsBonus(grade) ==
  CASE grade = "A+" -> 4
    [] grade = "A"  -> 2
    [] grade = "A-" -> 1
    [] grade = "B+" -> 0
    [] grade = "B"  -> -1
    [] grade = "B-" -> -2
    [] OTHER        -> -3

\* str includes one of the strings of the set pats
IncludesAny(str, pats) == \E pat \in pats : Includes(str, pat)

\* the local specialBonus after the three special-fit tests
specialBonus(collegeName, majorName, profile) ==
  LET isStemFocused ==
        IncludesAny(collegeName, {<<"m","i","t">>, <<"c","a","l","t","e","c","h">>, <<"t","e","c","h">>})
      isStemMajor ==
        IncludesAny(majorName, {<<"e","n","g","i","n","e","e","r">>, <<"c","o","m","p","u","t">>, <<"m","a","t","h">>, <<"p","h","y","s","i","c">>,
                                  <<"c","h","e","m","i","s","t","r","y">>, <<"b","i","o","l","o","g">>})
      isLiberalArts ==
        IncludesAny(collegeName, {<<"a","m","h","e","r","s","t">>, <<"w","i","l","l","i","a","m","s">>, <<"s","w","a","r","t","h","m","o","r","e">>,
                                    <<"b","o","w","d","o","i","n">>, <<"p","o","m","o","n","a">>})
      isHumanitiesMajor ==
        IncludesAny(majorName, {<<"e","n","g","l","i","s","h">>, <<"h","i","s","t","o","r","y">>, <<"p","h","i","l","o","s","o","p","h">>,
                                  <<"p","o","l","i","t","i","c">>, <<"a","r","t">>, <<"l","a","n","g","u","a","g","e">>})
      isBusinessSchool ==
        IncludesAny(collegeName, {<<"w","h","a","r","t","o","n">>, <<"s","t","e","r","n">>, <<"r","o","s","s">>, <<"m","c","c","o","m","b","s">>,
                                    <<"m","a","r","s","h","a","l","l">>})
      isBusinessMajor ==
        IncludesAny(majorName, {<<"b","u","s","i","n","e","s","s">>, <<"f","i","n","a","n","c","e">>, <<"a","c","c","o","u","n","t">>,
                                  <<"e","c","o","n","o","m","i","c">>, <<"m","a","r","k","e","t">>})
  IN
  (IF /\ isStemFocused /\ isStemMajor
      /\ (\/ FGe(profile.gpa, Dec(39)) \/ profile.sat >= 1500
          \/ profile.act >= 34)
   THEN 5 ELSE 0)
  + (IF /\ isLiberalArts /\ isHumanitiesMajor
        /\ FGe(profile.gpa, Dec(38))
     THEN 5 ELSE 0)
  + (IF /\ isBusinessSchool /\ isBusinessMajor
        /\ profile.hasLeadershipRoles
     THEN 5 ELSE 0)

Min(a, b) == IF a < b THEN a ELSE b
Max(a, b) == IF a > b THEN a ELSE b

\* ClampPercentage without the lower bound: Math.min(finalPercentage, 95)
ClampUpperOnly(finalPercentage) == Min(finalPercentage, 95)

\* "Ensure percentage is in reasonable bounds"
ClampPercentage(finalPercentage) == Min(Max(finalPercentage, 1), 95)

\* the sum of the five terms, before the bounds are applied
RawPercentage(collegeName, collegeTier, majorName, profile, state) ==
  StateAdjustedBase(collegeName, collegeTier, state)
  + academicBonus(profile.academicGrade)
  + ecBonus(profile.extracurricularGrade)
  + awardsBonus(profile.awardsGrade)
  + specialBonus(collegeName, majorName, profile)

\* ChanceLevel with the thresholds of the earlier, more lenient revision
ChanceLevelLenient(finalPercentage) ==
  IF finalPercentage >= 70 THEN [chance |-> "High", color |-> "green-500"]
  ELSE IF finalPercentage >= 40
       THEN [chance |-> "Medium", color |-> "yellow-500"]
       ELSE [chance |-> "Low", color |-> "red-500"]

\* chance level and color
ChanceLevel(finalPercentage) ==
  IF finalPercentage >= 80 THEN [chance |-> "High", color |-> "green-500"]
  ELSE IF finalPercentage >= 55
       THEN [chance |-> "Medium", color |-> "yellow-500"]
       ELSE [chance |-> "Low", color |-> "red-500"]

\* the feedback template chosen, with the college name it is filled with
Feedback(collegeName, collegeTier, finalPercentage) ==
  LET band ==
        IF collegeTier = "ivy-plus"
        THEN IF finalPercentage >= 50 THEN "ivy-plus: strong position"
             ELSE IF finalPercentage >= 25 THEN "ivy-plus: extremely selective"
             ELSE "ivy-plus: fewer than 7%"
        ELSE IF collegeTier = "tier1"
        THEN IF finalPercentage >= 60 THEN "tier1: competitive applicant"
             ELSE IF finalPercentage >= 40 THEN "tier1: reasonable prospects"
             ELSE "tier1: very competitive"
        ELSE IF collegeTier = "tier2"
        THEN IF finalPercentage >= 70 THEN "tier2: excellent chance"
             ELSE IF finalPercentage >= 50 THEN "tier2: solid match"
             ELSE "tier2: targeted improvements"
        ELSE IF finalPercentage >= 80 THEN "other: strong safety"
             ELSE IF finalPercentage >= 60 THEN "other: good chance"
             ELSE "other: improvements in key areas"
  IN  [template |-> band, collegeName |-> collegeName]

calculateCollegeChance(collegeName, collegeTier, majorName, profile, state) ==
  LET finalPercentage ==
        ClampPercentage(RawPercentage(collegeName, collegeTier, majorName,
                                      profile, state))
      level == ChanceLevel(finalPercentage)
  IN  [chance     |-> level.chance,
       percentage |-> finalPercentage,
       color      |-> level.color,
       feedback   |-> Feedback(collegeName, collegeTier, finalPercentage)]

(***************************************************************************)
(* generateImprovementPlan                                                 *)
(*                                                                         *)
(* A recommendation is [category, rule, major, n, text]: the category tag  *)
(* the string starts with, the rule that pushed it, and the values its     *)
(* template is filled with (the major, a number, a suggestion text).       *)
(***************************************************************************)
Item(category, rule, major, n, text) ==
  [category |-> category, rule |-> rule, major |-> major, n |-> n,
   text |-> text]

getMajorRelatedActivitySuggestions(major0) ==
  LET major == ToLowerCase(major0)
  IN  IF IncludesAny(major, {<<"c","o","m","p","u","t">>, <<"s","o","f","t","w","a","r","e">>, <<"p","r","o","g","r","a","m">>})
      THEN "coding club, hackathons"
      ELSE IF Includes(major, <<"e","n","g","i","n","e","e","r">>)
      THEN "robotics competitions"
      ELSE IF IncludesAny(major, {<<"b","i","o","l","o","g">>, <<"c","h","e","m">>, <<"s","c","i","e","n","c","e">>})
      THEN "science fairs"
      ELSE IF IncludesAny(major, {<<"b","u","s","i","n","e","s","s">>, <<"e","c","o","n","o","m">>, <<"f","i","n","a","n","c","e">>})
      THEN "starting a small business"
      ELSE IF IncludesAny(major, {<<"a","r","t">>, <<"d","e","s","i","g","n">>, <<"m","u","s","i","c">>})
      THEN "building a portfolio"
      ELSE IF IncludesAny(major, {<<"p","o","l","i","t">>, <<"g","o","v","e","r","n">>, <<"l","a","w">>})
      THEN "debate team"
      ELSE IF IncludesAny(major, {<<"e","n","g","l","i","s","h">>, <<"w","r","i","t","i","n","g">>, <<"j","o","u","r","n","a","l">>})
      THEN "school newspaper"
      ELSE IF IncludesAny(major, {<<"p","s","y","c","h">>, <<"s","o","c","i","o","l">>, <<"h","u","m","a","n">>})
      THEN "volunteering with relevant organizations"
      ELSE "clubs, competitions, or community service"

\* the sequence holding the advice, empty when the function returns null
getMajorSpecificAdvice(major0) ==
  LET major == ToLowerCase(major0)
      field ==
        IF IncludesAny(major, {<<"c","o","m","p","u","t">>, <<"s","o","f","t","w","a","r","e">>, <<"p","r","o","g","r","a","m">>})
        THEN "GitHub portfolio"
        ELSE IF Includes(major, <<"e","n","g","i","n","e","e","r">>)
        THEN "hands-on projects"
        ELSE IF IncludesAny(major, {<<"b","i","o","l","o","g">>, <<"c","h","e","m">>, <<"s","c","i","e","n","c","e">>})
        THEN "laboratory or research experience"
        ELSE IF IncludesAny(major, {<<"b","u","s","i","n","e","s","s">>, <<"e","c","o","n","o","m">>, <<"f","i","n","a","n","c","e">>})
        THEN "quantitative and analytical skills"
        ELSE IF IncludesAny(major, {<<"a","r","t">>, <<"d","e","s","i","g","n">>, <<"m","u","s","i","c">>})
        THEN "strong portfolio"
        ELSE IF IncludesAny(major, {<<"p","o","l","i","t">>, <<"g","o","v","e","r","n">>, <<"l","a","w">>})
        THEN "writing and argumentation skills"
        ELSE IF IncludesAny(major, {<<"e","n","g","l","i","s","h">>, <<"w","r","i","t","i","n","g">>, <<"j","o","u","r","n","a","l">>})
        THEN "read widely"
        ELSE IF IncludesAny(major, {<<"p","s","y","c","h">>, <<"s","o","c","i","o","l">>, <<"h","u","m","a","n">>})
        THEN "human behavior and social systems"
        ELSE ""
  IN  IF field = "" THEN <<>>
      ELSE << Item("MAJOR-SPECIFIC", "major advice", major, 0, field) >>

\* if (cond) improvementPlan.push(item)
PushIf(plan, cond, item) == IF cond THEN Append(plan, item) ELSE plan

\* the array improvementPlan after the academic, extracurricular and
\* honors rules
ConditionalRules(profile) ==
  LET major == profile.major
      p1  == PushIf(<<>>, FLess(profile.gpa, Dec(37)),
                    Item("ACADEMIC", "gpa", <<>>, 0, ""))
      p2  == PushIf(p1, profile.sat < 1400 /\ profile.act < 31,
                    Item("ACADEMIC", "test scores", <<>>, 0, ""))
      p3  == PushIf(p2, profile.apCourses < 5,
                    Item("ACADEMIC", "ap courses", major,
                         5 - profile.apCourses, ""))
      p4  == PushIf(p3, profile.courseRigor = "low"
                        \/ profile.courseRigor = "medium",
                    Item("ACADEMIC", "course rigor", <<>>, 0, ""))
      p5  == PushIf(p4, profile.extracurricularCount < 3,
                    Item("EXTRACURRICULAR", "more activities", major,
                         Max(3 - profile.extracurricularCount, 1), ""))
      p6  == PushIf(p5, ~profile.hasLeadershipRoles,
                    Item("EXTRACURRICULAR", "leadership", <<>>, 0, ""))
      p7  == PushIf(p6, ~profile.hasLongTermCommitment,
                    Item("EXTRACURRICULAR", "commitment", <<>>, 0, ""))
      p8  == PushIf(p7, ~profile.hasMajorRelatedActivities,
                    Item("EXTRACURRICULAR", "major activities", major, 0,
                         getMajorRelatedActivitySuggestions(major)))
      p9  == PushIf(p8, profile.awardCount < 2,
                    Item("HONORS", "competitions", major, 0, ""))
  IN  PushIf(p9, ~profile.hasNationalAwards /\ ~profile.hasStateAwards,
             Item("HONORS", "regional or national", <<>>, 0, ""))

\* ApplicationItems pushing the three items ahead of the rule items
ApplicationItemsFirst(improvementPlan, major) ==
  << Item("APPLICATION", "personal statement", major, 0, ""),
     Item("APPLICATION", "recommendation letters", <<>>, 0, ""),
     Item("COLLEGE SELECTION", "balanced college list", <<>>, 0, "") >>
  \o improvementPlan

\* the three unconditional pushes of the application-specific section
ApplicationItems(improvementPlan, major) ==
  improvementPlan \o
  << Item("APPLICATION", "personal statement", major, 0, ""),
     Item("APPLICATION", "recommendation letters", <<>>, 0, ""),
     Item("COLLEGE SELECTION", "balanced college list", <<>>, 0, "") >>

\* the array improvementPlan when the length test is reached
PlanRules(profile) ==
  ApplicationItems(ConditionalRules(profile), profile.major)
  \o getMajorSpecificAdvice(profile.major)

\* Truncate keeping the last ten recommendations: slice(-10)
TruncateKeepLast(improvementPlan) ==
  IF Len(improvementPlan) > 10
  THEN SubSeq(improvementPlan, Len(improvementPlan) - 9, Len(improvementPlan))
  ELSE improvementPlan

\* "Ensure we don't have too many recommendations"
Truncate(improvementPlan) ==
  IF Len(improvementPlan) > 10 THEN SubSeq(improvementPlan, 1, 10)
  ELSE improvementPlan

generateImprovementPlan(profile) == Truncate(PlanRules(profile))

(***************************************************************************)
(* generateOverallAssessment                                               *)
(*                                                                         *)
(* The narrative is the sequence of the pieces the function appends to     *)
(* assessment.  A piece is [about, text, grade]: the part of the narrative *)
(* it belongs to (the function's own headings), the sentence appended,     *)
(* named by its leading words, and the letter grade the sentence           *)
(* interpolates ("" when it interpolates none).  Interpolated numbers and  *)
(* the major are not kept.  profile is the object literal of the call: a   *)
(* property the literal does not carry reads as undefined, which every     *)
(* condition of the function treats as false.                              *)
(***************************************************************************)
Phrase(about, text, grade) == [about |-> about, text |-> text, grade |-> grade]

\* assessment += text when cond holds
Say(cond, about, text) == IF cond THEN << Phrase(about, text, "") >> ELSE << >>

\* grade.startsWith(letter) for a letter grade
GradeStartsWith(grade, letter) ==
  \/ letter = "A" /\ grade \in {"A+", "A", "A-"}
  \/ letter = "B" /\ grade \in {"B+", "B", "B-"}
  \/ letter = "C" /\ grade \in {"C+", "C", "C-"}
  \/ letter = "D" /\ grade \in {"D+", "D"}

\* profile[name] read as a condition: undefined when the property is absent
Flag(profile, name) == name \in DOMAIN profile /\ profile[name]

\* the object generateOverallAssessment is called with
NarrativeProfile(f) ==
  [academicGrade |-> f.academicGrade,
   extracurricularGrade |-> f.extracurricularGrade,
   awardsGrade |-> f.awardsGrade,
   overallGrade |-> f.overallGrade,
   gpa |-> f.gpa, sat |-> f.sat, act |-> f.act, apCourses |-> f.apCourses,
   extracurricularCount |-> f.extracurricularCount,
   hasLeadershipRoles |-> f.hasLeadershipRoles,
   awardCount |-> f.awardCount,
   hasNationalAwards |-> f.hasNationalAwards,
   major |-> f.major,
   colleges |-> f.colleges]

\* majorFitScore of the major-compatibility paragraph
majorFitScore(profile) ==
  LET majorLower == ToLowerCase(profile.major)
      Pts(cond, n) == IF cond THEN n ELSE 0
  IN  IF IncludesAny(majorLower, {<<"c","o","m","p","u","t">>, <<"e","n","g","i","n","e","e","r">>, <<"m","a","t","h">>})
      THEN (IF GradeStartsWith(profile.academicGrade, "A") THEN 2
            ELSE IF GradeStartsWith(profile.academicGrade, "B") THEN 1
            ELSE 0)
           + Pts(Flag(profile, "hasMajorRelatedActivities"), 2)
           + Pts(Flag(profile, "hasMajorRelatedAwards"), 1)
      ELSE IF IncludesAny(majorLower, {<<"b","u","s","i","n","e","s","s">>, <<"f","i","n","a","n","c","e">>, <<"e","c","o","n">>})
      THEN Pts(Flag(profile, "hasLeadershipRoles"), 2)
           + Pts(Flag(profile, "hasMajorRelatedActivities"), 2)
           + Pts(profile.extracurricularCount >= 3, 1)
      ELSE IF IncludesAny(majorLower, {<<"a","r","t">>, <<"m","u","s","i","c">>, <<"d","r","a","m","a">>})
      THEN Pts(Flag(profile, "hasMajorRelatedActivities"), 3)
           + Pts(Flag(profile, "hasMajorRelatedAwards"), 2)
      ELSE 0

generateOverallAssessment(profile) ==
  LET
    \* opening sentence and academic paragraph with its strengths and weaknesses
    AcademicNarrative ==
      << Phrase("overall", "Based on your profile with an overall grade of",
                profile.overallGrade) >>
      \o (IF GradeStartsWith(profile.academicGrade, "A")
          THEN << Phrase("academic", "Your academic record is strong", "") >>
               \o (IF profile.sat >= 1400 \/ profile.act >= 31
                   THEN << Phrase("academic", "Your test scores are competitive", "") >>
                   ELSE IF profile.sat >= 1250 \/ profile.act >= 28
                   THEN << Phrase("academic", "Your test scores are solid", "") >>
                   ELSE IF profile.sat > 0 \/ profile.act > 0
                   THEN << Phrase("academic", "Your test scores need significant improvement", "") >>
                   ELSE << Phrase("academic", "No standardized test scores provided - this is a significant gap", "") >>)
          ELSE IF GradeStartsWith(profile.academicGrade, "B")
          THEN << Phrase("academic", "Your academic performance is average", "") >>
               \o (IF profile.sat >= 1350 \/ profile.act >= 30
                   THEN << Phrase("academic", "Your strong test scores help compensate", "") >>
                   ELSE << Phrase("academic", "Both your GPA and test scores are below competitive ranges", "") >>)
          ELSE << Phrase("academic", "Your academic record is below the threshold", ""),
                  Phrase("academic", "Focus on test-optional schools", "") >>)
      \o << Phrase("academic", "Strengths:", "") >>
      \o Say(FGe(profile.gpa, Dec(37)), "academic", "Strong GPA.")
      \o Say(profile.sat >= 1450 \/ profile.act >= 33, "academic",
             "Excellent test scores.")
      \o Say(profile.apCourses >= 7, "academic", "Rigorous course load")
      \o << Phrase("academic", "Weaknesses:", "") >>
      \o Say(FLess(profile.gpa, Dec(37)), "academic",
             "GPA below competitive threshold")
      \o Say(\/ profile.sat > 0 /\ profile.sat < 1400
             \/ profile.act > 0 /\ profile.act < 31,
             "academic", "Test scores below target range")
      \o Say(profile.sat = 0 /\ profile.act = 0, "academic",
             "No standardized test scores provided.")
      \o Say(profile.apCourses < 5, "academic", "Limited advanced coursework.")
    \* extracurricular paragraph with its strengths and weaknesses
    ExtracurricularNarrative ==
      << Phrase("extracurricular", "Extracurricular Activities (Grade:",
                profile.extracurricularGrade) >>
      \o (IF GradeStartsWith(profile.extracurricularGrade, "A")
          THEN << Phrase("extracurricular", "Your involvement demonstrates commitment", "") >>
               \o Say(~Flag(profile, "hasLeadershipRoles"), "extracurricular",
                      "leadership roles are practically a requirement")
          ELSE IF GradeStartsWith(profile.extracurricularGrade, "B")
          THEN << Phrase("extracurricular", "Your extracurricular profile shows moderate involvement", "") >>
               \o Say(~Flag(profile, "hasLeadershipRoles"), "extracurricular",
                      "The absence of leadership positions is a significant weakness")
               \o Say(profile.extracurricularCount < 3, "extracurricular",
                      "Your limited number of activities")
          ELSE << Phrase("extracurricular", "Your extracurricular profile is underdeveloped", ""),
                  Phrase("extracurricular", "This is a critical area to strengthen", "") >>)
      \o << Phrase("extracurricular", "Strengths:", "") >>
      \o Say(Flag(profile, "hasLeadershipRoles"), "extracurricular",
             "Demonstrated leadership experience.")
      \o Say(profile.extracurricularCount >= 4, "extracurricular",
             "Multiple activities showing diverse interests.")
      \o Say(Flag(profile, "hasLongTermCommitment"), "extracurricular",
             "Long-term commitment to activities.")
      \o << Phrase("extracurricular", "Weaknesses:", "") >>
      \o Say(~Flag(profile, "hasLeadershipRoles"), "extracurricular",
             "Lack of leadership positions.")
      \o Say(~Flag(profile, "hasMajorRelatedActivities"), "extracurricular",
             "Few activities related to intended major.")
      \o Say(profile.extracurricularCount < 3, "extracurricular",
             "Limited extracurricular engagement.")
      \o Say(~Flag(profile, "hasSignificantTimeCommitment"), "extracurricular",
             "No activities with significant time commitment.")
    \* honors paragraph with its strengths and weaknesses
    AwardsNarrative ==
      << Phrase("awards", "Honors & Awards (Grade:", profile.awardsGrade) >>
      \o (IF GradeStartsWith(profile.awardsGrade, "A")
          THEN << Phrase("awards", "Your achievements are impressive", "") >>
               \o Say(~Flag(profile, "hasNationalAwards"), "awards",
                      "national awards are often expected")
          ELSE IF GradeStartsWith(profile.awardsGrade, "B")
          THEN << Phrase("awards", "Your accomplishments are good", "") >>
               \o Say(~Flag(profile, "hasNationalAwards")
                      /\ ~Flag(profile, "hasStateAwards"), "awards",
                      "The absence of recognition beyond the local level")
          ELSE << Phrase("awards", "This area is significantly underdeveloped", ""),
                  Phrase("awards", "The lack of formal recognition", "") >>)
      \o << Phrase("awards", "Strengths:", "") >>
      \o Say(Flag(profile, "hasNationalAwards"), "awards",
             "National-level recognition")
      \o Say(Flag(profile, "hasStateAwards"), "awards",
             "State/regional awards demonstrating broader achievement.")
      \o Say(Flag(profile, "hasMajorRelatedAwards"), "awards",
             "Awards relevant to intended major.")
      \o << Phrase("awards", "Weaknesses:", "") >>
      \o Say(~Flag(profile, "hasNationalAwards"), "awards",
             "Lack of national-level recognition.")
      \o Say(~Flag(profile, "hasStateAwards"), "awards",
             "No state/regional achievements.")
      \o Say(profile.awardCount < 2, "awards", "Limited formal recognition.")
      \o Say(~Flag(profile, "hasMajorRelatedAwards"), "awards",
             "No awards related to intended major.")
    \* major-compatibility paragraph
    MajorNarrative ==
      LET majorLower == ToLowerCase(profile.major)
      IN  << Phrase("major", "Major Compatibility:", "") >>
          \o (IF profile.major # <<>>
              THEN << Phrase("major", "Your intended major is", "") >>
                   \o (IF majorFitScore(profile) >= 4
                       THEN << Phrase("major", "Your profile shows strong alignment", "") >>
                       ELSE IF majorFitScore(profile) >= 2
                       THEN << Phrase("major", "Your profile shows moderate alignment", "") >>
                       ELSE << Phrase("major", "Your profile currently shows limited connection", "") >>)
                   \o (IF IncludesAny(majorLower, {<<"c","o","m","p","u","t">>, <<"s","o","f","t","w","a","r","e">>, <<"p","r","o","g","r","a","m">>})
                       THEN << Phrase("major", "For Computer Science/Programming:", "") >>
                       ELSE IF Includes(majorLower, <<"e","n","g","i","n","e","e","r">>)
                       THEN << Phrase("major", "For Engineering:", "") >>
                       ELSE IF Includes(majorLower, <<"b","u","s","i","n","e","s","s">>)
                       THEN << Phrase("major", "For Business:", "") >>
                       ELSE << >>)
              ELSE << Phrase("major", "No major preference indicated.", "") >>)
    \* overall strategy and recommendations
    StrategyNarrative ==
      << Phrase("strategy", "Recommended Strategy:", "") >>
      \o (IF GradeStartsWith(profile.overallGrade, "A")
          THEN << Phrase("strategy", "You have a strong profile", ""),
                  Phrase("strategy", "Even applicants with perfect credentials face uncertainty", ""),
                  Phrase("strategy", "Focus on crafting compelling essays", ""),
                  Phrase("strategy", "Build a balanced college list", "") >>
          ELSE IF GradeStartsWith(profile.overallGrade, "B")
          THEN << Phrase("strategy", "Your profile shows strengths but has notable weaknesses", ""),
                  Phrase("strategy", "Top-30 schools would be reach options", ""),
                  Phrase("strategy", "Focus on highlighting your strengths", ""),
                  Phrase("strategy", "Be strategic with your college list", "") >>
          ELSE << Phrase("strategy", "Your current profile has significant gaps", ""),
                  Phrase("strategy", "Focus on schools with acceptance rates above 40%", ""),
                  Phrase("strategy", "Consider community college with transfer plans", ""),
                  Phrase("strategy", "For immediate applications", "") >>)
  IN  AcademicNarrative \o ExtracurricularNarrative \o AwardsNarrative
      \o MajorNarrative \o StrategyNarrative

(***************************************************************************)
(* createFallbackResponse                                                  *)
(*                                                                         *)
(* formData is [academics, extracurriculars, honorsAwards, colleges,       *)
(* major, residency]; an optional string the request leaves out is the     *)
(* empty string, which every use in the function treats alike (x || "",    *)
(* x?.f()).  currentYear is new Date().getFullYear().                      *)
(***************************************************************************)

\* parseFloat on a decimal string with at most one fractional digit: the
\* value in tenths, as [nan, val]
parseFloat(str) ==
  LET whole == parseInt(str)
      idx   == {i \in 1..Len(str) : str[i] = "."}
      dot   == IF idx = {} THEN 0 ELSE CHOOSE i \in idx : \A j \in idx : i <= j
      frac  == IF dot > 0 /\ dot < Len(str) /\ IsDigit(str[dot + 1])
               THEN DigitVal(str[dot + 1]) ELSE 0
  IN  IF whole.nan THEN whole
      ELSE [nan |-> FALSE, val |-> 10 * whole.val + frac]

FloatOrZero(str, d) == Dec(OrDefault(parseFloat(str), 0))

\* parseFloat(str) || d, as a binary64 (d in tenths)
FloatOr(str, d) == Dec(OrDefault(parseFloat(str), d))

\* FilterNonEmpty without the trim(): a whitespace-only entry is kept
FilterNonEmptyUntrimmed(array, field) ==
  LET IsKept(entry) == entry[field] # <<>>
  IN  SelectSeq(array, IsKept)

\* array.filter(entry => entry[field].trim() !== "")
RECURSIVE FilterNonEmpty(_, _)
FilterNonEmpty(array, field) ==
  IF array = <<>> THEN <<>>
  ELSE IF Trim(Head(array)[field]) # <<>>
       THEN <<Head(array)>> \o FilterNonEmpty(Tail(array), field)
       ELSE FilterNonEmpty(Tail(array), field)

leadershipWords ==
  { <<"p","r","e","s","i","d","e","n","t">>, <<"l","e","a","d","e","r">>, <<"c","a","p","t","a","i","n">>, <<"f","o","u","n","d","e","r">>, <<"d","i","r","e","c","t","o","r">>,
    <<"e","d","i","t","o","r">>, <<"m","a","n","a","g","e","r">>, <<"c","h","a","i","r">> }

\* the predicate of hasMajorRelatedActivities on one activity
IsMajorRelatedActivity(ec, major0) ==
  LET activity    == ToLowerCase(ec.activity)
      description == ToLowerCase(ec.description)
      major       == ToLowerCase(major0)
  IN  \/ Includes(activity, major)
      \/ Includes(description, major)
      \/ /\ Includes(major, <<"c","o","m","p","u","t">>)
         /\ IncludesAny(activity, {<<"t","e","c","h">>, <<"c","o","d","i","n","g">>, <<"p","r","o","g","r","a","m","m","i","n","g">>,
                                   <<"s","o","f","t","w","a","r","e">>})
      \/ /\ Includes(major, <<"e","n","g","i","n","e","e","r">>)
         /\ IncludesAny(activity, {<<"r","o","b","o","t">>, <<"d","e","s","i","g","n">>, <<"b","u","i","l","d">>})
      \/ /\ Includes(major, <<"b","i","o","l","o","g">>)
         /\ IncludesAny(activity, {<<"l","a","b">>, <<"s","c","i","e","n","c","e">>, <<"r","e","s","e","a","r","c","h">>})
      \/ /\ Includes(major, <<"b","u","s","i","n","e","s","s">>)
         /\ IncludesAny(activity, {<<"e","n","t","r","e","p","r","e","n","e","u","r">>, <<"m","a","r","k","e","t","i","n","g">>,
                                   <<"f","i","n","a","n","c","e">>})
      \/ /\ Includes(major, <<"a","r","t">>)
         /\ IncludesAny(activity, {<<"d","e","s","i","g","n">>, <<"d","r","a","w">>, <<"p","a","i","n","t">>,
                                   <<"p","o","r","t","f","o","l","i","o">>})

\* the predicate of hasMajorRelatedAwards on one honor
IsMajorRelatedAward(award, major0) ==
  LET title == ToLowerCase(award.title)
      major == ToLowerCase(major0)
  IN  \/ Includes(title, major)
      \/ /\ Includes(major, <<"c","o","m","p","u","t">>)
         /\ IncludesAny(title, {<<"t","e","c","h">>, <<"c","o","d","i","n","g">>, <<"h","a","c","k","a","t","h","o","n">>,
                                <<"p","r","o","g","r","a","m","m","i","n","g">>})
      \/ /\ Includes(major, <<"e","n","g","i","n","e","e","r">>)
         /\ IncludesAny(title, {<<"r","o","b","o","t">>, <<"d","e","s","i","g","n">>, <<"i","n","v","e","n","t","i","o","n">>})
      \/ /\ Includes(major, <<"b","i","o","l","o","g">>)
         /\ IncludesAny(title, {<<"s","c","i","e","n","c","e">>, <<"r","e","s","e","a","r","c","h">>, <<"l","a","b">>})
      \/ /\ Includes(major, <<"b","u","s","i","n","e","s","s">>)
         /\ IncludesAny(title, {<<"e","n","t","r","e","p","r","e","n","e","u","r">>, <<"m","a","r","k","e","t","i","n","g">>,
                                <<"f","i","n","a","n","c","e">>})
      \/ /\ Includes(major, <<"a","r","t">>)
         /\ IncludesAny(title, {<<"d","e","s","i","g","n">>, <<"c","r","e","a","t","i","v","e">>, <<"p","o","r","t","f","o","l","i","o">>})

\* the student information the function extracts from the form before it
\* grades: parsed numbers, the counts of non-blank entries and the flags
StudentInformation(formData, currentYear) ==
  LET gpa         == FloatOr(formData.academics.gpa, 30)
      weightedGpa == FloatOr(formData.academics.weightedGpa, 0)
      sat         == OrDefault(parseInt(formData.academics.sat), 0)
      act         == OrDefault(parseInt(formData.academics.act), 0)
      apCourses   == OrDefault(parseInt(formData.academics.apCourses), 0)
      courseRigor == IF formData.academics.courseRigor = "" THEN "medium"
                     ELSE formData.academics.courseRigor
      validExtracurriculars ==
        FilterNonEmpty(formData.extracurriculars, "activity")
      LongTerm(ec)  == NumGe(parseInt(StrOr(ec.yearsInvolved, <<"0">>)), 3)
      SigTime(ec)   == NumGe(parseInt(StrOr(ec.hoursPerWeek, <<"0">>)), 10)
      Leads(ec)     == IncludesAny(ToLowerCase(ec.role), leadershipWords)
      MajorAct(ec)  == IsMajorRelatedActivity(ec, formData.major)
      validHonors   == FilterNonEmpty(formData.honorsAwards, "title")
      National(award) == award.level = "national"
                         \/ award.level = "international"
      State(award)    == award.level = "state" \/ award.level = "regional"
      Recent(award)   == NumGe(parseInt(StrOr(award.year, <<"0">>)),
                               currentYear - 2)
      MajorAward(award) == IsMajorRelatedAward(award, formData.major)
      hasLeadershipRoles           ==
        \E i \in 1..Len(validExtracurriculars) : Leads(validExtracurriculars[i])
      hasLongTermCommitment        ==
        \E i \in 1..Len(validExtracurriculars) : LongTerm(validExtracurriculars[i])
      hasSignificantTimeCommitment ==
        \E i \in 1..Len(validExtracurriculars) : SigTime(validExtracurriculars[i])
      hasMajorRelatedActivities    ==
        \E i \in 1..Len(validExtracurriculars) : MajorAct(validExtracurriculars[i])
      hasNationalAwards     ==
        \E i \in 1..Len(validHonors) : National(validHonors[i])
      hasStateAwards        ==
        \E i \in 1..Len(validHonors) : State(validHonors[i])
      hasRecentAwards       ==
        \E i \in 1..Len(validHonors) : Recent(validHonors[i])
      hasMajorRelatedAwards ==
        \E i \in 1..Len(validHonors) : MajorAward(validHonors[i])
  IN  [gpa |-> gpa, weightedGpa |-> weightedGpa, sat |-> sat, act |-> act,
       apCourses |-> apCourses, courseRigor |-> courseRigor,
       extracurricularCount |-> Len(validExtracurriculars),
       hasLeadershipRoles |-> hasLeadershipRoles,
       hasLongTermCommitment |-> hasLongTermCommitment,
       hasSignificantTimeCommitment |-> hasSignificantTimeCommitment,
       hasMajorRelatedActivities |-> hasMajorRelatedActivities,
       awardCount |-> Len(validHonors),
       hasNationalAwards |-> hasNationalAwards,
       hasStateAwards |-> hasStateAwards,
       hasRecentAwards |-> hasRecentAwards,
       hasMajorRelatedAwards |-> hasMajorRelatedAwards,
       major |-> formData.major,
       colleges |-> formData.colleges]

\* the three grader calls on the extracted information
Graded(info) ==
  LET WithGrades(bag, academicGrade, extracurricularGrade, awardsGrade) ==
        bag @@ [academicGrade |-> academicGrade,
                 extracurricularGrade |-> extracurricularGrade,
                 awardsGrade |-> awardsGrade,
                 overallGrade |-> calculateOverallGrade(academicGrade,
                                    extracurricularGrade, awardsGrade)]
  IN
  WithGrades(info,
    calculateAcademicGrade(info.gpa, info.weightedGpa, info.sat, info.act,
                           info.apCourses, info.courseRigor),
    calculateExtracurricularGrade(info.extracurricularCount,
      info.hasLeadershipRoles, info.hasLongTermCommitment,
      info.hasSignificantTimeCommitment, info.hasMajorRelatedActivities),
    calculateAwardsGrade(info.awardCount, info.hasNationalAwards,
      info.hasStateAwards, info.hasRecentAwards, info.hasMajorRelatedAwards))

\* Features with awardCount counting the recent honors only
FeaturesCountingRecent(formData, currentYear) ==
  LET info  == StudentInformation(formData, currentYear)
      valid == FilterNonEmpty(formData.honorsAwards, "title")
      recent == {i \in 1..Len(valid) :
                   NumGe(parseInt(StrOr(valid[i].year, <<"0">>)),
                         currentYear - 2)}
  IN  Graded([info EXCEPT !.awardCount = Cardinality(recent)])

\* the constants the function computes before it builds its result
Features(formData, currentYear) ==
  Graded(StudentInformation(formData, currentYear))

\* one element of collegeChances: the body of the map callback
CollegeEstimate(college, formData, f) ==
  LET collegeName     == ToLowerCase(college)
      collegeTier     == determineCollegeTier(collegeName)
      residencyStatus == IF formData.residency = "" THEN "out-of-state"
                         ELSE formData.residency
      r == calculateCollegeChance(collegeName, collegeTier,
                                  ToLowerCase(formData.major), f,
                                  residencyStatus)
  IN  [name |-> college,
       chance |-> [label |-> r.chance, percentage |-> r.percentage],
       color |-> r.color,
       collegeTier |-> collegeTier,
       tierColor |-> getColorForTier(collegeTier),
       feedback |-> r.feedback]

\* [cond ? text : null].filter(Boolean)
Keep(cond, text) == IF cond THEN << text >> ELSE << >>

\* content of a section: the grade it cites and the clauses chosen
SectionContent(grade, clauses) == [grade |-> grade, clauses |-> clauses]

academicSection(f) ==
  [title |-> "Academic Profile Assessment",
   grade |-> f.academicGrade,
   content |->
     SectionContent(f.academicGrade,
       << IF GradeStartsWith(f.academicGrade, "A")
          THEN "You have a strong academic foundation"
          ELSE IF GradeStartsWith(f.academicGrade, "B")
          THEN "Your academic record is solid but could be improved"
          ELSE "Your academic record needs significant improvement" >>
       \o Keep(f.sat # 0, "SAT:") \o Keep(f.act # 0, "ACT:")),
   strengths |->
     Keep(FGe(f.gpa, Dec(37)), "Strong unweighted GPA")
     \o Keep(f.sat >= 1450, "Excellent SAT score")
     \o Keep(f.act >= 32, "Impressive ACT score")
     \o Keep(f.apCourses >= 7, "Substantial AP/IB coursework"),
   weaknesses |->
     Keep(FLess(f.gpa, Dec(35)), "GPA is below the competitive threshold")
     \o Keep(f.sat < 1400 /\ f.sat > 0, "SAT score may limit opportunities")
     \o Keep(f.act < 30 /\ f.act > 0, "ACT score needs improvement")
     \o Keep(f.apCourses < 5, "Limited number of AP/IB courses")]

extracurricularSection(f) ==
  [title |-> "Extracurricular Activities Assessment",
   grade |-> f.extracurricularGrade,
   content |->
     SectionContent(f.extracurricularGrade,
       Keep(f.hasLeadershipRoles, "with leadership positions")
       \o << IF f.hasLongTermCommitment
             THEN "You've demonstrated commitment over time"
             ELSE "Your activities lack long-term commitment" >>),
   strengths |->
     Keep(f.hasLeadershipRoles, "Leadership positions demonstrate initiative")
     \o Keep(f.hasLongTermCommitment, "Long-term commitment to activities shows dedication")
     \o Keep(f.hasSignificantTimeCommitment, "Significant time investment indicates passion")
     \o Keep(f.hasMajorRelatedActivities, "Activities aligned with the major"),
   weaknesses |->
     Keep(~f.hasLeadershipRoles, "Lack of leadership positions")
     \o Keep(~f.hasLongTermCommitment, "Insufficient long-term commitment")
     \o Keep(f.extracurricularCount < 3, "Too few substantial activities")
     \o Keep(~f.hasMajorRelatedActivities, "No activities related to your intended major")]

honorsSection(f) ==
  [title |-> "Honors & Awards Assessment",
   grade |-> f.awardsGrade,
   content |->
     SectionContent(f.awardsGrade,
       IF f.hasNationalAwards THEN << "including national recognition" >>
       ELSE IF f.hasStateAwards THEN << "including state-level recognition" >>
       ELSE << >>),
   strengths |->
     Keep(f.hasNationalAwards, "National awards significantly enhance your competitiveness")
     \o Keep(f.hasStateAwards, "State-level recognition")
     \o Keep(f.awardCount >= 3, "Multiple awards show consistent recognition")
     \o Keep(f.hasMajorRelatedAwards, "Awards related to the major"),
   weaknesses |->
     Keep(~f.hasNationalAwards /\ ~f.hasStateAwards, "Lack of recognition beyond school level")
     \o Keep(f.awardCount < 2, "Too few awards or honors")
     \o Keep(~f.hasMajorRelatedAwards, "No awards related to your intended major")
     \o Keep(~f.hasRecentAwards, "No recent awards suggests declining achievement")]

\* BuildResponse with the blank college entries dropped before the map
BuildResponseSkippingBlank(formData, f) ==
  LET named == SelectSeq(formData.colleges, LAMBDA c : Trim(c) # <<>>)
  IN  [overallAssessment |-> generateOverallAssessment(NarrativeProfile(f)),
       assessmentSections |->
         << academicSection(f), extracurricularSection(f), honorsSection(f) >>,
       collegeChances |->
         [i \in 1..Len(named) |-> CollegeEstimate(named[i], formData, f)],
       improvementPlan |-> generateImprovementPlan(f)]

\* the returned object, built from the form and the computed constants f
BuildResponse(formData, f) ==
  [overallAssessment |-> generateOverallAssessment(NarrativeProfile(f)),
   assessmentSections |->
     << academicSection(f), extracurricularSection(f), honorsSection(f) >>,
   collegeChances |->
     [i \in 1..Len(formData.colleges) |->
        CollegeEstimate(formData.colleges[i], formData, f)],
   improvementPlan |-> generateImprovementPlan(f)]

createFallbackResponse(formData, currentYear) ==
  BuildResponse(formData, Features(formData, currentYear))

(***************************************************************************)
(* State.  One invocation of an engine function: pc is "call" before the   *)
(* function runs and "return" after; args are its actual parameters,       *)
(* locals the final values of the local variables the properties refer     *)
(* to, ret the returned value.                                             *)
(***************************************************************************)
VARIABLES pc, args, locals, ret

vars == <<pc, args, locals, ret>>

None == "none"

(***************************************************************************)
(* Academic grading: the arguments createFallbackResponse passes to        *)
(* calculateAcademicGrade.  gpa and weightedGpa are kept in tenths and     *)
(* converted as parseFloat converts the decimal string.                    *)
(***************************************************************************)
MinGpa == 28
MaxGpa == 40
MaxGap == 7
MinSat50 == 28
MaxSat50 == 32
MinAct == 32
MaxAct == 36
MaxApPairs == 5

GpaTenths == MinGpa..MaxGpa
CourseRigors == {"low", "medium", "high", "very_high"}

InitAcademic ==
  LET SatScores == {0} \cup {50 * k : k \in MinSat50..MaxSat50}
      ActScores == {0} \cup (MinAct..MaxAct)
      ApCourseCounts == {2 * k : k \in 0..MaxApPairs}
  IN
  /\ pc = "call"
  /\ \E g \in GpaTenths, s \in SatScores, a \in ActScores,
        n \in ApCourseCounts, r \in CourseRigors :
       \E w \in {0} \cup {g + d : d \in 0..MaxGap} :
         args = [gpa |-> g, weightedGpa |-> w, sat |-> s, act |-> a,
                 apCourses |-> n, courseRigor |-> r]
  /\ locals = None
  /\ ret = None

CalculateAcademicGrade ==
  /\ pc = "call"
  /\ locals' = [points |-> AcademicPoints(Dec(args.gpa), Dec(args.weightedGpa), args.sat, args.act, args.apCourses, args.courseRigor)]
  /\ ret' = AcademicLetter(locals'.points)
  /\ pc' = "return"
  /\ UNCHANGED args

SpecAcademic == InitAcademic /\ [][CalculateAcademicGrade]_vars

(***************************************************************************)
(* College chance: calculateCollegeChance applied to a lowercased college  *)
(* name, a tier, a lowercased major, a profile and a residency.            *)
(***************************************************************************)
CollegeNames ==
  { <<"m","i","t">>, <<"g","e","o","r","g","i","a"," ","t","e","c","h">>, <<"o","h","i","o"," ","s","t","a","t","e"," ","u","n","i","v","e","r","s","i","t","y">>,
    <<"a","m","h","e","r","s","t"," ","c","o","l","l","e","g","e">>, <<"u","n","i","v","e","r","s","i","t","y"," ","o","f"," ","m","i","c","h","i","g","a","n"," ","r","o","s","s">> }

MajorNames == { <<"c","o","m","p","u","t","e","r"," ","s","c","i","e","n","c","e">>, <<"a","r","t"," ","h","i","s","t","o","r","y">>, <<"b","u","s","i","n","e","s","s">>, <<"n","u","r","s","i","n","g">> }

Tiers == {"ivy-plus", "tier1", "tier2", "tier3", "tier4"}

Residencies == {"in-state", "out-of-state", "international"}

\* gpa (tenths), sat, act and leadership of the profiles drawn
Standings ==
  { [gpa |-> 35, sat |-> 1200, act |-> 0, hasLeadershipRoles |-> FALSE],
    [gpa |-> 38, sat |-> 0, act |-> 30, hasLeadershipRoles |-> TRUE],
    [gpa |-> 39, sat |-> 1500, act |-> 34, hasLeadershipRoles |-> TRUE] }

ProfileOf(a, e, w, st) ==
  [academicGrade |-> a, extracurricularGrade |-> e, awardsGrade |-> w,
   overallGrade |-> calculateOverallGrade(a, e, w),
   gpa |-> Dec(st.gpa), sat |-> st.sat, act |-> st.act,
   hasLeadershipRoles |-> st.hasLeadershipRoles,
   hasNationalAwards |-> w \in {"A+", "A"}]

\* every GradeStride-th letter of the scale, from A+ down
GradeStride == 2

SampledGrades == {g \in Grades : gradeToNumber(g) % GradeStride = 0}

InitChance ==
  /\ pc = "call"
  /\ \E n \in CollegeNames, t \in Tiers, m \in MajorNames,
        a \in SampledGrades, e \in SampledGrades, w \in SampledGrades,
        st \in Standings, r \in Residencies :
       args = [collegeName |-> n, collegeTier |-> t, majorName |-> m,
               profile |-> ProfileOf(a, e, w, st), state |-> r]
  /\ locals = None
  /\ ret = None

CalculateCollegeChance ==
  /\ pc = "call"
  /\ locals' = [rawPercentage |->
                  RawPercentage(args.collegeName, args.collegeTier,
                                args.majorName, args.profile, args.state)]
  /\ ret' = calculateCollegeChance(args.collegeName, args.collegeTier,
                                   args.majorName, args.profile, args.state)
  /\ pc' = "return"
  /\ UNCHANGED args

SpecChance == InitChance /\ [][CalculateCollegeChance]_vars

(***************************************************************************)
(* The engine: createFallbackResponse applied to a submitted form.         *)
(* Activities and honors are sequences over small catalogues, which hold    *)
(* entries with and without every feature and an entry with a blank name.  *)
(***************************************************************************)
MaxActivities == 2
MaxHonors == 2
MinYear == 2026
MaxYear == 2027

Activity(name, role, years, hours) ==
  [activity |-> name, role |-> role, yearsInvolved |-> years,
   hoursPerWeek |-> hours, description |-> <<>>]

Honor(title, level, year) == [title |-> title, level |-> level, year |-> year]

HonorCatalogue ==
  { Honor(<<"S","c","i","e","n","c","e"," ","O","l","y","m","p","i","a","d">>, "national", <<"2","0","2","0">>),
    Honor(<<"H","a","c","k","a","t","h","o","n"," ","W","i","n","n","e","r">>, "national", <<"2","0","2","5">>),
    Honor(<<"S","t","a","t","e"," ","M","a","t","h"," ","C","h","a","m","p","i","o","n">>, "state", <<>>),
    Honor(<<" ">>, "international", <<"2","0","2","6">>) }

Academics(gpa, weightedGpa, sat, act, apCourses, courseRigor) ==
  [gpa |-> gpa, weightedGpa |-> weightedGpa, sat |-> sat, act |-> act,
   apCourses |-> apCourses, courseRigor |-> courseRigor]

AcademicsCatalogue ==
  { Academics(<<"4",".","0">>, <<"4",".","6">>, <<"1","5","5","0">>, <<>>, <<"1","0">>, "very_high"),
    Academics(<<"2",".","5">>, <<>>, <<>>, <<>>, <<>>, "medium") }

Majors == { <<"C","o","m","p","u","t","e","r"," ","S","c","i","e","n","c","e">>, <<"H","i","s","t","o","r","y">>, <<"B","i","o","l","o","g","y">> }

\* the sequences over S of length at most n
SeqsUpTo(S, n) == UNION { [1..k -> S] : k \in 0..n }

InitEngine ==
  LET ActivityCatalogue ==  { Activity(<<"C","o","d","i","n","g"," ","C","l","u","b">>, <<"P","r","e","s","i","d","e","n","t">>, <<"4">>, <<"1","2">>),
          Activity(<<"C","h","e","s","s">>, <<"M","e","m","b","e","r">>, <<"1">>, <<"2">>),
          Activity(<<" ">>, <<"F","o","u","n","d","e","r">>, <<"4">>, <<"2","0">>) }
  IN
  /\ pc = "call"
  /\ \E ac \in AcademicsCatalogue,
        ecs \in SeqsUpTo(ActivityCatalogue, MaxActivities),
        hs \in SeqsUpTo(HonorCatalogue, MaxHonors),
        m \in Majors, y \in MinYear..MaxYear :
       args = [formData |->
                 [academics |-> ac, extracurriculars |-> ecs,
                  honorsAwards |-> hs,
                  colleges |-> << <<"H","a","r","v","a","r","d">>, <<"S","t","a","t","e"," ","U","n","i","v","e","r","s","i","t","y">> >>,
                  major |-> m, residency |-> "out-of-state"],
               currentYear |-> y]
  /\ locals = None
  /\ ret = None

CreateFallbackResponse ==
  /\ pc = "call"
  /\ locals' = Features(args.formData, args.currentYear)
  \* createFallbackResponse(args.formData, args.currentYear), built from the
  \* feature bag just extracted
  /\ ret' = BuildResponse(args.formData, locals')
  /\ pc' = "return"
  /\ UNCHANGED args

SpecEngine == InitEngine /\ [][CreateFallbackResponse]_vars

(***************************************************************************)
(* Improvement plan: generateImprovementPlan applied to a feature bag.     *)
(* Every rule condition is drawn both ways.                                *)
(***************************************************************************)
MaxPlanActivities == 3
MaxPlanAwards == 2

InitPlan ==
  /\ pc = "call"
  /\ \E g \in {36, 37}, s \in {0, 1400}, a \in {0, 31}, n \in {0, 5},
        r \in CourseRigors, ec \in 2..MaxPlanActivities,
        aw \in 1..MaxPlanAwards, m \in Majors,
        lead \in BOOLEAN, long \in BOOLEAN, rel \in BOOLEAN,
        nat \in BOOLEAN, st \in BOOLEAN :
       args = [profile |->
                 [gpa |-> Dec(g), sat |-> s, act |-> a, apCourses |-> n,
                  courseRigor |-> r, extracurricularCount |-> ec,
                  hasLeadershipRoles |-> lead, hasLongTermCommitment |-> long,
                  hasMajorRelatedActivities |-> rel, awardCount |-> aw,
                  hasNationalAwards |-> nat, hasStateAwards |-> st,
                  major |-> m]]
  /\ locals = None
  /\ ret = None

GenerateImprovementPlan ==
  /\ pc = "call"
  /\ locals' = [improvementPlan |-> PlanRules(args.profile)]
  /\ ret' = generateImprovementPlan(args.profile)
  /\ pc' = "return"
  /\ UNCHANGED args

SpecPlan == InitPlan /\ [][GenerateImprovementPlan]_vars

(***************************************************************************)
(* College lists: createFallbackResponse applied to forms that differ in    *)
(* the colleges sequence.  The form keeps a college entry as typed, so the  *)
(* catalogue holds an empty and a blank entry, and sequences may repeat an  *)
(* entry.                                                                    *)
(***************************************************************************)
MaxColleges == 2

InitColleges ==
  LET CollegeCatalogue ==  { <<"H","a","r","v","a","r","d">>, <<"P","e","n","n"," ","S","t","a","t","e">>, <<"S","t","a","t","e"," ","U","n","i","v","e","r","s","i","t","y">>, <<>>, <<" ">> }
  IN
  /\ pc = "call"
  /\ \E ac \in AcademicsCatalogue, m \in Majors,
        cs \in SeqsUpTo(CollegeCatalogue, MaxColleges),
        r \in Residencies \cup {""} :
       args = [formData |->
                 [academics |-> ac, extracurriculars |-> << >>,
                  honorsAwards |-> << >>, colleges |-> cs,
                  major |-> m, residency |-> r],
               currentYear |-> MinYear]
  /\ locals = None
  /\ ret = None

SpecColleges == InitColleges /\ [][CreateFallbackResponse]_vars

(***************************************************************************)
(* Recency: createFallbackResponse applied to forms that differ in the      *)
(* honors and in the calendar year of the call.                             *)
(***************************************************************************)
InitRecency ==
  /\ pc = "call"
  /\ \E ac \in AcademicsCatalogue,
        hs \in SeqsUpTo(HonorCatalogue, MaxHonors), m \in Majors,
        y \in MinYear..MaxYear :
       args = [formData |->
                 [academics |-> ac, extracurriculars |-> << >>,
                  honorsAwards |-> hs,
                  colleges |-> << <<"H","a","r","v","a","r","d">>, <<"S","t","a","t","e"," ","U","n","i","v","e","r","s","i","t","y">> >>,
                  major |-> m, residency |-> "out-of-state"],
               currentYear |-> y]
  /\ locals = None
  /\ ret = None

SpecRecency == InitRecency /\ [][CreateFallbackResponse]_vars

(***************************************************************************)
(* analyzeWithDeepSeek and the POST /api/analyze-admission handler.        *)
(*                                                                         *)
(* reply is what the upstream chat-completion call ends in: the fetch      *)
(* rejects (network "failed"), or it resolves with a status and a body.    *)
(* A body is [kind, analysis]: "not json" when response.json() rejects,    *)
(* "no choices" when the JSON has no choices[0].message, "content not      *)
(* json" when the message content does not parse, "no collegeChances"      *)
(* when the parsed content has no collegeChances array, "analysis" when    *)
(* it is the analysis object asked for.  isDemoMode is the constant of the *)
(* first statement of analyzeWithDeepSeek, which the source sets to true;  *)
(* apiKey is process.env.DEEPSEEK_API_KEY, "" when unset.  A function      *)
(* outcome is [threw, value, message].                                     *)
(***************************************************************************)
Returned(value) == [threw |-> FALSE, value |-> value, message |-> ""]

getColorForChance(chance) ==
  IF Includes(ToLowerCase(chance), <<"h","i","g","h">>) THEN "green-500"
  ELSE IF Includes(ToLowerCase(chance), <<"m","e","d","i","u","m">>) THEN "yellow-500"
  ELSE "red-500"

analyzeWithDeepSeek(formData, currentYear, isDemoMode, apiKey, reply) ==
  LET StructuredResult(analysisContent) ==
        [overallAssessment |->
           IF analysisContent.overallAssessment # ""
           THEN analysisContent.overallAssessment
           ELSE "Based on your profile, you have strengths and areas for improvement",
         collegeChances |->
           [i \in 1..Len(analysisContent.collegeChances) |->
              [name |-> analysisContent.collegeChances[i].name,
               chance |-> analysisContent.collegeChances[i].chance,
               color |-> getColorForChance(analysisContent.collegeChances[i].chance),
               feedback |-> analysisContent.collegeChances[i].feedback]],
         improvementPlan |-> analysisContent.improvementPlan]
  IN
  LET \* the statement the function leaves through
      exit ==
        IF isDemoMode THEN "fallback"
        ELSE IF apiKey = "" THEN "DeepSeek API key is missing."
        ELSE IF reply.network = "failed" THEN "fetch failed"
        ELSE IF reply.status \notin 200..299
        THEN IF reply.status \in {402, 401, 429} THEN "fallback"
             ELSE "DeepSeek API returned status"
        ELSE IF reply.body.kind = "not json" THEN "invalid json response body"
        ELSE IF reply.body.kind \in {"no choices", "content not json", "no collegeChances"}
        THEN "fallback"
        ELSE "result"
  IN  IF exit = "fallback"
      THEN Returned(createFallbackResponse(formData, currentYear))
      ELSE IF exit = "result"
      THEN Returned(StructuredResult(reply.body.analysis))
      ELSE [threw |-> TRUE, value |-> None, message |-> exit]

\* admissionDataSchema.parse(body) succeeds
admissionDataSchema(body) ==
  /\ body.academics.gpa # << >>
  /\ body.academics.courseRigor \in CourseRigors
  /\ \A i \in 1..Len(body.extracurriculars) :
       body.extracurriculars[i].activity # << >>
  /\ \A i \in 1..Len(body.honorsAwards) :
       /\ body.honorsAwards[i].title # << >>
       /\ body.honorsAwards[i].level \in {"school", "district", "state", "national", "international"}
  /\ body.major # << >>
  /\ body.residency \in Residencies \cup {""}

(***************************************************************************)
(* Requests: one POST /api/analyze-admission.  args is [body, currentYear, *)
(* isDemoMode, apiKey, reply]; locals holds storage.analysisRequests, the  *)
(* bodies saved so far; ret is the response [status, success, result,      *)
(* message].                                                               *)
(***************************************************************************)
InitAnalyze ==
  LET Statuses == {200, 204, 400, 401, 402, 429, 500, 503}
      AnalysisCatalogue == { [overallAssessment |-> "You are a competitive applicant",
           collegeChances |-> << [name |-> <<"H","a","r","v","a","r","d">>, chance |-> <<"M","e","d","i","u","m","-","H","i","g","h">>, feedback |-> "Reach"] >>,
           improvementPlan |-> << "Retake the SAT" >>],
          [overallAssessment |-> "",
           collegeChances |-> << [name |-> <<"H","a","r","v","a","r","d">>, chance |-> <<"L","o","w">>, feedback |-> "Reach"] >>,
           improvementPlan |-> << >>] }
      NoAnalysis == [overallAssessment |-> "", collegeChances |-> << >>, improvementPlan |-> << >>]
      Bodies == { [kind |-> k, analysis |-> NoAnalysis] :
            k \in {"not json", "no choices", "content not json", "no collegeChances"} }
        \cup { [kind |-> "analysis", analysis |-> a] : a \in AnalysisCatalogue }
      Replies == { [network |-> "failed", status |-> 0, body |-> [kind |-> "none", analysis |-> NoAnalysis]] }
        \cup { [network |-> "ok", status |-> s, body |-> b] : s \in Statuses, b \in Bodies }
  IN
  /\ pc = "request"
  /\ \E ac \in AcademicsCatalogue \cup {Academics(<<>>, <<>>, <<>>, <<>>, <<>>, "medium")},
        m \in Majors \cup {<<>>},
        isDemoMode \in BOOLEAN, apiKey \in {"", "sk-key"}, reply \in Replies :
       args = [body |->
                 [academics |-> ac, extracurriculars |-> << >>,
                  honorsAwards |-> << >>,
                  colleges |-> << <<"H","a","r","v","a","r","d">> >>,
                  major |-> m, residency |-> ""],
               currentYear |-> MinYear,
               isDemoMode |-> isDemoMode, apiKey |-> apiKey, reply |-> reply]
  /\ locals = [analysisRequests |-> << >>]
  /\ ret = None

\* the body does not validate: answered 400 before anything is saved
RejectRequest ==
  /\ pc = "request"
  /\ ~admissionDataSchema(args.body)
  /\ ret' = [status |-> 400, success |-> FALSE, result |-> None,
             message |-> "Validation error"]
  /\ pc' = "response"
  /\ UNCHANGED <<args, locals>>

\* the body validates: saved, analysed, answered
AnalyzeAdmission ==
  LET AnalysisResponse(outcome) ==
        IF outcome.threw
        THEN [status |-> 500, success |-> FALSE, result |-> None,
              message |-> IF outcome.message # "" THEN outcome.message
                          ELSE "Failed to analyze with AI service. Please try again."]
        ELSE [status |-> 200, success |-> TRUE, result |-> outcome.value,
              message |-> ""]
  IN
  /\ pc = "request"
  /\ admissionDataSchema(args.body)
  /\ locals' = [analysisRequests |-> Append(locals.analysisRequests, args.body)]
  /\ ret' = AnalysisResponse(analyzeWithDeepSeek(args.body, args.currentYear, args.isDemoMode, args.apiKey, args.reply))
  /\ pc' = "response"
  /\ UNCHANGED args

SpecAnalyze == InitAnalyze /\ [][RejectRequest \/ AnalyzeAdmission]_vars

(***************************************************************************)
(* Tiers: the tier lookup of one submitted college, as the map callback of *)
(* createFallbackResponse makes it: the name is lowercased, then passed to *)
(* determineCollegeTier.  A name is up to MaxNameWords words joined by     *)
(* spaces.                                                                 *)
(***************************************************************************)
MaxNameWords == 2

RECURSIVE JoinWords(_)
JoinWords(words) ==
  IF words = << >> THEN << >>
  ELSE IF Len(words) = 1 THEN words[1]
  ELSE words[1] \o << " " >> \o JoinWords(Tail(words))

InitTier ==
  LET NameWords ==  { <<"H","a","r","v","a","r","d">>, <<"P","E","N","N">>, <<"S","m","i","t","h">>, <<"P","r","i","c","e">>, <<"M","i","c","h","i","g","a","n">>, <<"T","e","x","a","s">>, <<"F","l","o","r","i","d","a">>,
          <<"B","o","s","t","o","n">>, <<"C","o","l","l","e","g","e">>, <<"S","t","a","t","e">>, <<"O","h","i","o">>, <<"A","&","M">>, <<"U","n","i","v","e","r","s","i","t","y">> }
  IN
  /\ pc = "call"
  /\ \E words \in SeqsUpTo(NameWords, MaxNameWords) :
       args = [college |-> JoinWords(words)]
  /\ locals = None
  /\ ret = None

DetermineCollegeTier ==
  /\ pc = "call"
  /\ locals' = [collegeName |-> ToLowerCase(args.college)]
  /\ ret' = determineCollegeTier(ToLowerCase(args.college))
  /\ pc' = "return"
  /\ UNCHANGED args

SpecTier == InitTier /\ [][DetermineCollegeTier]_vars

(***************************************************************************)
(* Special fit: calculateCollegeChance applied to colleges and majors that *)
(* fall under one or several of its affinity rules, with the tier the      *)
(* caller derives from the name.                                           *)
(***************************************************************************)
InitFit ==
  LET FitColleges ==  CollegeNames \cup { <<"n","o","r","t","h","w","e","s","t","e","r","n"," ","p","o","l","y","t","e","c","h","n","i","c"," ","u","n","i","v","e","r","s","i","t","y">>, <<"w","i","l","l","i","a","m","s"," ","i","n","s","t","i","t","u","t","e"," ","o","f"," ","t","e","c","h","n","o","l","o","g","y">> }
      FitMajors == MajorNames \cup { <<"m","a","t","h","e","m","a","t","i","c","a","l"," ","e","c","o","n","o","m","i","c","s">>, <<"a","r","t"," ","a","n","d"," ","c","o","m","p","u","t","e","r"," ","s","c","i","e","n","c","e">> }
  IN
  /\ pc = "call"
  /\ \E n \in FitColleges, m \in FitMajors, a \in SampledGrades,
        e \in SampledGrades, st \in Standings, r \in Residencies :
       args = [collegeName |-> n, collegeTier |-> determineCollegeTier(n),
               majorName |-> m, profile |-> ProfileOf(a, e, "B", st),
               state |-> r]
  /\ locals = None
  /\ ret = None

SpecFit == InitFit /\ [][CalculateCollegeChance]_vars

(***************************************************************************)
(* Parsing: createFallbackResponse applied to forms whose academic fields  *)
(* hold numbers, zero, text that is no number, or nothing.                 *)
(***************************************************************************)
InitParse ==
  LET GpaStrings == { <<"3",".","5">>, <<"4">>, <<" ","2",".","8">>, <<"0">>, <<"0",".","0">>, <<"a","b","c">>, <<"N","/","A">> }
      DecimalStrings == { <<>>, <<"4",".","2">>, <<"0">>, <<"n","/","a">> }
      IntegerStrings == { <<>>, <<"3","4">>, <<"0">>, <<"n","o","n","e">> }
  IN
  /\ pc = "call"
  /\ \E g \in GpaStrings, w \in DecimalStrings, s \in IntegerStrings \cup { <<"1","4","5","0">> },
        a \in IntegerStrings, ap \in IntegerStrings :
       args = [formData |->
                 [academics |-> Academics(g, w, s, a, ap, "medium"),
                  extracurriculars |-> << >>, honorsAwards |-> << >>,
                  colleges |-> << <<"H","a","r","v","a","r","d">> >>,
                  major |-> <<"H","i","s","t","o","r","y">>, residency |-> ""],
               currentYear |-> MinYear]
  /\ locals = None
  /\ ret = None

SpecParse == InitParse /\ [][CreateFallbackResponse]_vars

(***************************************************************************)
(* Defaults: createFallbackResponse applied to forms in which each part is *)
(* either left as the form initialises it or filled in.                    *)
(***************************************************************************)
EmptyActivity == Activity(<<>>, <<>>, <<>>, <<>>)

EmptyHonor == Honor(<<>>, "school", <<>>)

\* the submission with every field left empty
EmptySubmission ==
  [academics |-> Academics(<<>>, <<>>, <<>>, <<>>, <<>>, "medium"),
   extracurriculars |-> << EmptyActivity >>,
   honorsAwards |-> << EmptyHonor >>,
   colleges |-> << <<>> >>,
   major |-> <<>>, residency |-> ""]

InitDefaults ==
  /\ pc = "call"
  /\ \E g \in { <<>>, <<"3",".","5">> }, s \in { <<>>, <<"1","4","5","0">> }, a \in { <<>>, <<"3","3">> },
        ap \in { <<>>, <<"8">> }, m \in { <<>>, <<"H","i","s","t","o","r","y">> },
        ec \in { EmptyActivity, Activity(<<"D","e","b","a","t","e"," ","T","e","a","m">>, <<"C","a","p","t","a","i","n">>, <<"3">>, <<"6">>) },
        h \in { EmptyHonor, Honor(<<"E","s","s","a","y"," ","P","r","i","z","e">>, "state", <<"2","0","2","5">>) },
        c \in { <<>>, <<"H","a","r","v","a","r","d">> } :
       args = [formData |->
                 [academics |-> Academics(g, <<>>, s, a, ap, "medium"),
                  extracurriculars |-> << ec >>, honorsAwards |-> << h >>,
                  colleges |-> << c >>, major |-> m, residency |-> ""],
               currentYear |-> MinYear]
  /\ locals = None
  /\ ret = None

SpecDefaults == InitDefaults /\ [][CreateFallbackResponse]_vars

(***************************************************************************)
(* Specification: one call of calculateExtracurricularGrade or of          *)
(* calculateAwardsGrade on a count and four flags, or one call of          *)
(* calculateOverallGrade on three category grades                          *)
(***************************************************************************)
MaxCount == 9

\* the grade either function returns for args a
CategoryGrade(a) ==
  IF a.category = "extracurricular"
  THEN calculateExtracurricularGrade(a.count, a.flags[1], a.flags[2], a.flags[3], a.flags[4])
  ELSE calculateAwardsGrade(a.count, a.flags[1], a.flags[2], a.flags[3], a.flags[4])

InitCategory ==
  /\ pc = "call"
  /\ \/ \E c \in {"extracurricular", "awards"}, n \in 0..MaxCount,
          f \in [1..4 -> BOOLEAN] :
          \* every flag is a some() over the entries counted, and one
          \* honor has one level
          /\ n = 0 => \A i \in 1..4 : ~f[i]
          /\ (c = "awards" /\ n = 1) => ~(f[1] /\ f[2])
          /\ args = [category |-> c, count |-> n, flags |-> f]
     \/ \E a \in Grades, e \in Grades, w \in Grades :
          args = [category |-> "overall", academic |-> a,
                  extracurricular |-> e, awards |-> w]
  /\ locals = None
  /\ ret = None

CalculateExtracurricularGrade ==
  /\ pc = "call"
  /\ args.category = "extracurricular"
  /\ locals' = [points |-> ExtracurricularPoints(args.count, args.flags[1], args.flags[2], args.flags[3], args.flags[4])]
  /\ ret' = CategoryGrade(args)
  /\ pc' = "return"
  /\ UNCHANGED args

CalculateAwardsGrade ==
  /\ pc = "call"
  /\ args.category = "awards"
  /\ locals' = [points |-> AwardsPoints(args.count, args.flags[1], args.flags[2], args.flags[3], args.flags[4])]
  /\ ret' = CategoryGrade(args)
  /\ pc' = "return"
  /\ UNCHANGED args

CalculateOverallGrade ==
  /\ pc = "call"
  /\ args.category = "overall"
  /\ locals' = [weightedAverage |-> WeightedAverage(args.academic, args.extracurricular, args.awards)]
  /\ ret' = calculateOverallGrade(args.academic, args.extracurricular, args.awards)
  /\ pc' = "return"
  /\ UNCHANGED args

SpecCategory ==
  InitCategory /\ [][CalculateExtracurricularGrade \/ CalculateAwardsGrade \/ CalculateOverallGrade]_vars

(***************************************************************************)
(* Specification: one call of createFallbackResponse on a form whose       *)
(* activity and honor lists mix filled entries with entries whose name or  *)
(* title is empty or whitespace while their other fields are filled        *)
(***************************************************************************)
InitBlank ==
  LET Activities == { Activity(<<"C","o","d","i","n","g"," ","C","l","u","b">>, <<"P","r","e","s","i","d","e","n","t">>, <<"4">>, <<"1","2">>),
                      Activity(<<" ">>, <<"F","o","u","n","d","e","r">>, <<"4">>, <<"2","0">>),
                      Activity(<<>>, <<"T","e","a","m"," ","C","a","p","t","a","i","n">>, <<"3">>, <<"1","0">>) }
      Honors == { Honor(<<"H","a","c","k","a","t","h","o","n"," ","W","i","n","n","e","r">>, "national", <<"2","0","2","5">>),
                  Honor(<<" ">>, "international", <<"2","0","2","6">>),
                  Honor(<<>>, "state", <<"2","0","2","6">>) }
  IN
  /\ pc = "call"
  /\ \E ecs \in SeqsUpTo(Activities, MaxActivities),
        hs \in SeqsUpTo(Honors, MaxHonors),
        m \in { <<"C","o","m","p","u","t","e","r"," ","S","c","i","e","n","c","e">>, <<>> } :
       args = [formData |->
                 [academics |-> Academics(<<"3",".","5">>, <<>>, <<"1","4","0","0">>, <<>>, <<"4">>, "high"),
                  extracurriculars |-> ecs, honorsAwards |-> hs,
                  colleges |-> << <<"H","a","r","v","a","r","d">>, <<"G","e","o","r","g","i","a"," ","T","e","c","h">> >>,
                  major |-> m, residency |-> "in-state"],
               currentYear |-> MinYear]
  /\ locals = None
  /\ ret = None

SpecBlank == InitBlank /\ [][CreateFallbackResponse]_vars

(***************************************************************************)
(* Specification: the form state of AdmissionForm under the handlers of    *)
(* the HonorsAwards and CollegesMajor steps.  locals is the React state    *)
(* (formData, currentStep), args the handler that ran last.                *)
(***************************************************************************)
MaxEntries == 2

InitForm ==
  /\ pc = "form"
  /\ args = [handler |-> "useState"]
  /\ locals = [formData |-> EmptySubmission, currentStep |-> 1]
  /\ ret = None

\* onNext of the AcademicInfo and Extracurriculars steps
handleNextStep ==
  /\ locals.currentStep \in {1, 2}
  /\ locals' = [locals EXCEPT !.currentStep = @ + 1]
  /\ args' = [handler |-> "handleNextStep"]
  /\ UNCHANGED <<pc, ret>>

handlePrevStep ==
  /\ locals.currentStep > 1
  /\ locals' = [locals EXCEPT !.currentStep = @ - 1]
  /\ args' = [handler |-> "handlePrevStep"]
  /\ UNCHANGED <<pc, ret>>

\* HonorsAwards.handleInputChange
handleInputChange ==
  /\ locals.currentStep = 3
  /\ \E index \in 1..Len(locals.formData.honorsAwards) :
       \/ \E value \in { <<>>, <<" ">>, <<"E","s","s","a","y"," ","P","r","i","z","e">> } :
            locals' = [locals EXCEPT !.formData.honorsAwards[index].title = value]
       \/ \E value \in { "school", "national" } :
            locals' = [locals EXCEPT !.formData.honorsAwards[index].level = value]
  /\ args' = [handler |-> "handleInputChange"]
  /\ UNCHANGED <<pc, ret>>

addHonorAward ==
  /\ locals.currentStep = 3
  /\ Len(locals.formData.honorsAwards) < MaxEntries
  /\ locals' = [locals EXCEPT !.formData.honorsAwards = Append(@, EmptyHonor)]
  /\ args' = [handler |-> "addHonorAward"]
  /\ UNCHANGED <<pc, ret>>

removeHonorAward ==
  /\ locals.currentStep = 3
  /\ \E index \in 1..Len(locals.formData.honorsAwards) :
       LET honorsAwards == locals.formData.honorsAwards
       IN  IF Len(honorsAwards) <= 1
           THEN UNCHANGED locals
           ELSE locals' = [locals EXCEPT !.formData.honorsAwards =
                             SubSeq(honorsAwards, 1, index - 1)
                             \o SubSeq(honorsAwards, index + 1, Len(honorsAwards))]
  /\ args' = [handler |-> "removeHonorAward"]
  /\ UNCHANGED <<pc, ret>>

\* HonorsAwards.handleContinue
handleContinue ==
  /\ locals.currentStep = 3
  /\ LET filteredHonorsAwards == FilterNonEmpty(locals.formData.honorsAwards, "title")
         updatedHonorsAwards ==
           IF Len(filteredHonorsAwards) > 0 THEN filteredHonorsAwards
           ELSE << EmptyHonor >>
     IN  locals' = [locals EXCEPT !.formData.honorsAwards = updatedHonorsAwards,
                                  !.currentStep = @ + 1]
  /\ args' = [handler |-> "handleContinue"]
  /\ UNCHANGED <<pc, ret>>

handleCollegeChange ==
  /\ locals.currentStep = 4
  /\ \E index \in 1..Len(locals.formData.colleges), value \in { <<>>, <<" ">>, <<"M","I","T">> } :
       locals' = [locals EXCEPT !.formData.colleges[index] = value]
  /\ args' = [handler |-> "handleCollegeChange"]
  /\ UNCHANGED <<pc, ret>>

addCollege ==
  /\ locals.currentStep = 4
  /\ Len(locals.formData.colleges) < MaxEntries
  /\ locals' = [locals EXCEPT !.formData.colleges = Append(@, <<>>)]
  /\ args' = [handler |-> "addCollege"]
  /\ UNCHANGED <<pc, ret>>

\* removeCollege without the early return on a single remaining entry
removeCollegeUnguarded ==
  /\ locals.currentStep = 4
  /\ \E index \in 1..Len(locals.formData.colleges) :
       LET colleges == locals.formData.colleges
       IN  locals' = [locals EXCEPT !.formData.colleges =
                        SubSeq(colleges, 1, index - 1)
                        \o SubSeq(colleges, index + 1, Len(colleges))]
  /\ args' = [handler |-> "removeCollege"]
  /\ UNCHANGED <<pc, ret>>

removeCollege ==
  /\ locals.currentStep = 4
  /\ \E index \in 1..Len(locals.formData.colleges) :
       LET colleges == locals.formData.colleges
       IN  IF Len(colleges) <= 1
           THEN UNCHANGED locals
           ELSE locals' = [locals EXCEPT !.formData.colleges =
                             SubSeq(colleges, 1, index - 1)
                             \o SubSeq(colleges, index + 1, Len(colleges))]
  /\ args' = [handler |-> "removeCollege"]
  /\ UNCHANGED <<pc, ret>>

\* CollegesMajor.onSubmit, which form.handleSubmit calls with values that
\* pass collegesMajorSchema
onSubmit ==
  /\ locals.currentStep = 4
  /\ \E residency \in Residencies :
       LET NotBlank(college) == Trim(college) # <<>>
           filteredColleges == SelectSeq(locals.formData.colleges, NotBlank)
           updatedColleges ==
             IF Len(filteredColleges) > 0 THEN filteredColleges ELSE << <<>> >>
       IN  locals' = [locals EXCEPT !.formData.colleges = updatedColleges,
                                    !.formData.major = <<"B","i","o","l","o","g","y">>,
                                    !.formData.residency = residency,
                                    !.currentStep = @ + 1]
  /\ args' = [handler |-> "onSubmit"]
  /\ UNCHANGED <<pc, ret>>

SpecForm ==
  InitForm /\ [][\/ handleNextStep \/ handlePrevStep
                 \/ handleInputChange \/ addHonorAward \/ removeHonorAward
                 \/ handleContinue
                 \/ handleCollegeChange \/ addCollege \/ removeCollege
                 \/ onSubmit]_vars

(***************************************************************************)
(* Specification: one call of calculateCollegeChance on names and majors   *)
(* that collect every special-fit bonus, with and without the public flag, *)
(* at every tier                                                           *)
(***************************************************************************)
InitSelectivity ==
  /\ pc = "call"
  /\ \E n \in { <<"r","o","s","s"," ","w","i","l","l","i","a","m","s"," ","u","n","i","v","e","r","s","i","t","y"," ","o","f"," ","t","e","c","h">>, <<"c","a","l","t","e","c","h"," ","w","i","l","l","i","a","m","s"," ","r","o","s","s">>, <<"a","m","h","e","r","s","t"," ","c","o","l","l","e","g","e">>, <<"o","h","i","o"," ","s","t","a","t","e"," ","u","n","i","v","e","r","s","i","t","y">> },
        t \in Tiers,
        m \in { <<"h","i","s","t","o","r","y"," ","o","f"," ","m","a","t","h","e","m","a","t","i","c","a","l"," ","e","c","o","n","o","m","i","c","s">>, <<"n","u","r","s","i","n","g">> },
        a \in SampledGrades, e \in SampledGrades, w \in SampledGrades,
        st \in Standings, r \in Residencies :
       args = [collegeName |-> n, collegeTier |-> t, majorName |-> m,
               profile |-> ProfileOf(a, e, w, st), state |-> r]
  /\ locals = None
  /\ ret = None

SpecSelectivity == InitSelectivity /\ [][CalculateCollegeChance]_vars

(***************************************************************************)
(* Specification: MemStorage under saveUserResult and getUserResults.      *)
(* locals holds the fields savedUserResults and currentResultId, args the  *)
(* saveUserResult calls made so far, ret the value the last call returned. *)
(***************************************************************************)
MaxSaves == 3

MaxUserId == 2

InitStorage ==
  /\ pc = "constructor"
  /\ args = << >>
  /\ locals = [savedUserResults |-> << >>, currentResultId |-> 1]
  /\ ret = None

\* saveUserResult with const id = this.currentResultId, never incremented
saveUserResultReusingId ==
  /\ Len(args) < MaxSaves
  /\ \E userId \in 1..MaxUserId, formData \in {"form A", "form B"},
        createdAt \in {"2026-01-01T00:00:00.000Z", "2026-01-01T00:00:00.001Z"} :
       LET id == locals.currentResultId
           savedResult == [id |-> id, userId |-> userId, formData |-> formData,
                           resultData |-> "result", createdAt |-> createdAt]
           results == locals.savedUserResults
           withKey == IF userId \in DOMAIN results THEN results
                      ELSE [u \in DOMAIN results \cup {userId} |->
                              IF u = userId THEN << >> ELSE results[u]]
       IN  /\ locals' = [savedUserResults |->
                           [withKey EXCEPT ![userId] = Append(@, savedResult)],
                         currentResultId |-> id]
           /\ ret' = savedResult
           /\ args' = Append(args, [userId |-> userId, formData |-> formData])
  /\ pc' = "saveUserResult"

saveUserResult ==
  /\ Len(args) < MaxSaves
  /\ \E userId \in 1..MaxUserId, formData \in {"form A", "form B"},
        createdAt \in {"2026-01-01T00:00:00.000Z", "2026-01-01T00:00:00.001Z"} :
       LET id == locals.currentResultId
           savedResult == [id |-> id, userId |-> userId, formData |-> formData,
                           resultData |-> "result", createdAt |-> createdAt]
           results == locals.savedUserResults
           \* if (!this.savedUserResults.has(userId)) set(userId, [])
           withKey == IF userId \in DOMAIN results THEN results
                      ELSE [u \in DOMAIN results \cup {userId} |->
                              IF u = userId THEN << >> ELSE results[u]]
       IN  /\ locals' = [savedUserResults |->
                           [withKey EXCEPT ![userId] = Append(@, savedResult)],
                         currentResultId |-> id + 1]
           /\ ret' = savedResult
           /\ args' = Append(args, [userId |-> userId, formData |-> formData])
  /\ pc' = "saveUserResult"

\* this.savedUserResults.get(userId) || []
getUserResults ==
  /\ \E userId \in 1..MaxUserId :
       ret' = [userId |-> userId,
               results |-> IF userId \in DOMAIN locals.savedUserResults
                           THEN locals.savedUserResults[userId] ELSE << >>]
  /\ pc' = "getUserResults"
  /\ UNCHANGED <<args, locals>>

SpecStorage == InitStorage /\ [][saveUserResult \/ getUserResults]_vars

(***************************************************************************)
(* Properties                                                              *)
(***************************************************************************)

\* C1: the percentage calculateCollegeChance returns is an integer between
\* 1 and 95, whatever the profile, college name, tier and residency.
C1_PercentageInRange ==
  pc = "return" => ret.percentage \in 1..95

\* a call whose sum of terms is below 1 has returned
C1_Witness ==
  pc = "return" /\ locals.rawPercentage < 1 /\ ret.percentage = 1

\* C2: label and color follow from the returned percentage alone: 80 and
\* above is High/green-500, 55 to 79 Medium/yellow-500, below 55
\* Low/red-500, and nothing else is produced.
C2_LabelFollowsPercentage ==
  pc = "return" =>
    \/ ret.percentage >= 80 /\ ret.chance = "High" /\ ret.color = "green-500"
    \/ /\ ret.percentage >= 55 /\ ret.percentage < 80
       /\ ret.chance = "Medium" /\ ret.color = "yellow-500"
    \/ ret.percentage < 55 /\ ret.chance = "Low" /\ ret.color = "red-500"

\* a call has returned a percentage between the two thresholds
C2_Witness ==
  pc = "return" /\ ret.percentage >= 55 /\ ret.percentage < 80
  /\ ret.chance = "Medium"

\* the order in which generateImprovementPlan evaluates its rules
RuleOrder ==
  << "gpa", "test scores", "ap courses", "course rigor", "more activities",
     "leadership", "commitment", "major activities", "competitions",
     "regional or national", "personal statement", "recommendation letters",
     "balanced college list", "major advice" >>

RuleIndex(rule) == CHOOSE i \in 1..Len(RuleOrder) : RuleOrder[i] = rule

\* C3: the plan has at most 10 items; when the rules produced more than 10
\* the plan is exactly their first 10, and the items are in rule order.
C3_PlanIsFirstTen ==
  pc = "return" =>
    /\ Len(ret) <= 10
    /\ Len(locals.improvementPlan) > 10 =>
         ret = SubSeq(locals.improvementPlan, 1, 10)
    /\ \A i, j \in 1..Len(ret) :
         i < j => RuleIndex(ret[i].rule) < RuleIndex(ret[j].rule)

\* the rules produced more than 10 items and the plan was cut
C3_Witness ==
  pc = "return" /\ Len(locals.improvementPlan) > 10 /\ Len(ret) = 10

\* the sequence plan holds an item pushed by the rule
HasRule(plan, rule) == \E i \in 1..Len(plan) : plan[i].rule = rule

\* how many academic, extracurricular and honors items the rules pushed
ConditionalCount(plan) ==
  Cardinality({i \in 1..Len(plan) :
                 plan[i].category \in {"ACADEMIC", "EXTRACURRICULAR", "HONORS"}})

\* C4 as claimed: every returned plan contains both APPLICATION items and
\* the COLLEGE SELECTION item.
C4_PlanKeepsApplicationItems ==
  pc = "return" =>
    /\ HasRule(ret, "personal statement")
    /\ HasRule(ret, "recommendation letters")
    /\ HasRule(ret, "balanced college list")

\* C4 as amended: the three items are always appended to the rule list, in
\* that order after the conditional items; the returned plan keeps the
\* personal statement iff at most 9 conditional items precede it, the
\* recommendation letters iff at most 8, the list-balance item iff at most 7.
C4_ApplicationItemsUnlessTruncated ==
  pc = "return" =>
    LET k == ConditionalCount(locals.improvementPlan)
    IN  /\ HasRule(locals.improvementPlan, "personal statement")
        /\ HasRule(locals.improvementPlan, "recommendation letters")
        /\ HasRule(locals.improvementPlan, "balanced college list")
        /\ HasRule(ret, "personal statement") <=> k <= 9
        /\ HasRule(ret, "recommendation letters") <=> k <= 8
        /\ HasRule(ret, "balanced college list") <=> k <= 7

\* a plan with eight conditional items was returned without the
\* list-balance item
C4_Witness ==
  pc = "return" /\ ConditionalCount(locals.improvementPlan) = 8
  /\ HasRule(ret, "recommendation letters")
  /\ ~HasRule(ret, "balanced college list")

\* the Academic grade of the call's arguments with the GPA replaced by g
GradeAtGpa(g) ==
  calculateAcademicGrade(Dec(g), Dec(args.weightedGpa), args.sat, args.act,
                         args.apCourses, args.courseRigor)

\* the weighted-GPA bonus of the call's arguments with the GPA replaced by g
BonusAtGpa(g) == WeightedGpaBonus(Dec(g), Dec(args.weightedGpa))

\* C5 as claimed: raising the unweighted GPA, everything else fixed, never
\* lowers the Academic grade.
C5_GpaRaiseNeverLowersGrade ==
  pc = "return" =>
    \A g \in GpaTenths :
      g > args.gpa => gradeToNumber(GradeAtGpa(g)) >= gradeToNumber(ret)

\* C5 as amended: raising the unweighted GPA, everything else fixed, never
\* lowers the Academic grade provided the weighted-GPA bonus, which is
\* computed from weightedGpa - gpa, is the same at both GPAs (in particular
\* when no weighted GPA is given).
C5_GpaRaiseWithSameBonus ==
  pc = "return" =>
    \A g \in GpaTenths :
      g > args.gpa /\ BonusAtGpa(g) = BonusAtGpa(args.gpa)
        => gradeToNumber(GradeAtGpa(g)) >= gradeToNumber(ret)

\* a graded call with a weighted GPA for which a higher GPA keeps the bonus
\* and earns a better grade
C5_Witness ==
  /\ pc = "return"
  /\ args.weightedGpa > 0
  /\ \E g \in GpaTenths :
       /\ g > args.gpa
       /\ BonusAtGpa(g) = BonusAtGpa(args.gpa)
       /\ BonusAtGpa(g) # Zero
       /\ gradeToNumber(GradeAtGpa(g)) > gradeToNumber(ret)

\* C6: raising course rigor one step along low < medium < high < very_high,
\* everything else fixed, never lowers the Academic grade, and very_high
\* earns the largest rigor contribution, 1 point.
C6_RigorRaiseNeverLowersGrade ==
  LET \* the validated enum order of courseRigor, as pairs (value, next value)
      RigorSteps ==
        { <<"low", "medium">>, <<"medium", "high">>, <<"high", "very_high">> }
      \* the grade of the call's arguments with the rigor replaced by r
      GradeAtRigor(r) ==
        calculateAcademicGrade(Dec(args.gpa), Dec(args.weightedGpa), args.sat,
                               args.act, args.apCourses, r)
  IN
  pc = "return" =>
    /\ \A st \in RigorSteps :
         st[1] = args.courseRigor
           => gradeToNumber(GradeAtRigor(st[2])) >= gradeToNumber(ret)
    /\ args.courseRigor = "very_high"
         => RigorPoints(args.courseRigor) = Dec(10)

\* C7: when SAT or ACT is non-zero the point total is the GPA contribution
\* plus the better of the SAT and ACT contributions plus the AP, rigor and
\* weighted-GPA contributions.
C7_TestContributionIsBetterOfTwo ==
  LET \* the contributions summed in the order of the function
      BetterOfTwoTotal ==
        FAdd(FAdd(FAdd(FAdd(GpaPoints(Dec(args.gpa)),
                            FMax(SatPoints(args.sat), ActPoints(args.act))),
                       ApPoints(args.apCourses)),
                  RigorPoints(args.courseRigor)),
             WeightedGpaBonus(Dec(args.gpa), Dec(args.weightedGpa)))
  IN  pc = "return" /\ (args.sat # 0 \/ args.act # 0)
        => locals.points = BetterOfTwoTotal

\* C8: the engine grades the reference academic record (GPA 4.0, weighted
\* GPA 4.6, SAT 1550, no ACT, 10 AP courses, rigor very_high) A+.
C8_ReferenceAcademicsGradeAPlus ==
  pc = "return"
  /\ args.formData.academics = Academics(<<"4",".","0">>, <<"4",".","6">>, <<"1","5","5","0">>, <<>>, <<"1","0">>, "very_high")
    => locals.academicGrade = "A+"

\* the entries of the submitted activities whose name is not blank
ValidActivities == FilterNonEmpty(args.formData.extracurriculars, "activity")

\* exactly one non-blank activity, and it holds a leadership role, has run
\* for 3 years or more, takes 10 hours a week or more and is major-related
C9_Case ==
  /\ Len(ValidActivities) = 1
  /\ locals.hasLeadershipRoles
  /\ locals.hasLongTermCommitment
  /\ locals.hasSignificantTimeCommitment
  /\ locals.hasMajorRelatedActivities

\* C9 as claimed: such a profile receives Extracurricular grade A+.
C9_SingleLeadActivityGradeAPlus ==
  pc = "return" /\ C9_Case => locals.extracurricularGrade = "A+"

\* C9 as amended: such a profile receives Extracurricular grade A- (0.5 for
\* the one activity + 3 + 2 + 1 + 2 = 8.5 points; A+ takes 10 points).
C9_SingleLeadActivityGradeAMinus ==
  pc = "return" /\ C9_Case =>
    /\ locals.extracurricularGrade = "A-"
    /\ ret.assessmentSections[2].grade = "A-"

\* the President of the Coding Club applying for Computer Science was graded
C9_Witness ==
  /\ pc = "return"
  /\ C9_Case
  /\ ToLowerCase(ValidActivities[1].role) = <<"p","r","e","s","i","d","e","n","t">>
  /\ args.formData.major = <<"C","o","m","p","u","t","e","r"," ","S","c","i","e","n","c","e">>

\* the entries of the submitted honors whose title is not blank
ValidHonors == FilterNonEmpty(args.formData.honorsAwards, "title")

\* exactly one non-blank honor, of level national
C10_Case == Len(ValidHonors) = 1 /\ ValidHonors[1].level = "national"

\* C10 as claimed: such a profile receives an Awards grade of at least B+,
\* whatever the year and title of the honor.
C10_NationalHonorAtLeastBPlus ==
  pc = "return" /\ C10_Case
    => gradeToNumber(locals.awardsGrade) >= gradeToNumber("B+")

\* C10 as amended: such a profile receives an Awards grade of at least C+
\* (1 + 3 = 4 points); the grade is B+ exactly when the honor is also
\* recent and major-related (7 points), and never higher.
C10_NationalHonorAtLeastCPlus ==
  pc = "return" /\ C10_Case =>
    /\ gradeToNumber(locals.awardsGrade) >= gradeToNumber("C+")
    /\ gradeToNumber(locals.awardsGrade) <= gradeToNumber("B+")
    /\ locals.awardsGrade = "B+"
         <=> locals.hasRecentAwards /\ locals.hasMajorRelatedAwards

\* a single national honor that is neither recent nor major-related was
\* graded
C10_Witness ==
  /\ pc = "return"
  /\ C10_Case
  /\ ~locals.hasRecentAwards
  /\ ~locals.hasMajorRelatedAwards
  /\ locals.awardsGrade = "C+"

\* C11: collegeChances has the length of the input colleges sequence and
\* its i-th estimate carries the i-th input college name unchanged.
C11_EstimatesMirrorColleges ==
  pc = "return" =>
    /\ Len(ret.collegeChances) = Len(args.formData.colleges)
    /\ \A i \in 1..Len(args.formData.colleges) :
         ret.collegeChances[i].name = args.formData.colleges[i]

\* a form naming the same college twice, and one with a blank entry before
\* a named college, were answered with two estimates
C11_Witness ==
  /\ pc = "return"
  /\ Len(args.formData.colleges) = 2
  /\ \/ args.formData.colleges[1] = args.formData.colleges[2]
     \/ Trim(args.formData.colleges[1]) = <<>>
  /\ Len(ret.collegeChances) = 2
  /\ ret.collegeChances[2].name = args.formData.colleges[2]

\* C12: no estimate is produced for an empty or whitespace-only college
\* entry.
C12_NoEstimateForBlankCollege ==
  pc = "return" =>
    \A i \in 1..Len(ret.collegeChances) :
      Trim(ret.collegeChances[i].name) # <<>>

\* the calendar years a call is compared with
YearsCompared == (MinYear - 4)..(MaxYear + 2)

\* C13: a second invocation on the same form in the same year returns the
\* same result, and an invocation in another year returns the same result
\* whenever hasRecentAwards comes out the same: the year acts through that
\* flag alone.
C13_YearActsThroughRecencyOnly ==
  pc = "return" =>
    \A y \in YearsCompared :
      Features(args.formData, y).hasRecentAwards = locals.hasRecentAwards
        => createFallbackResponse(args.formData, y) = ret

\* a form was answered whose result is the same in another year with the
\* same recency flag and differs in a year with the other flag
C13_Witness ==
  /\ pc = "return"
  /\ locals.hasRecentAwards
  /\ \E y \in YearsCompared :
       /\ y # args.currentYear
       /\ Features(args.formData, y).hasRecentAwards
       /\ createFallbackResponse(args.formData, y) = ret
  /\ \E y \in YearsCompared :
       /\ ~Features(args.formData, y).hasRecentAwards
       /\ createFallbackResponse(args.formData, y) # ret

\* C14: the overall narrative cites the letter grade of each of the three
\* categories and the overall grade, and every letter it cites is the grade
\* of the corresponding structured field.
C14_NarrativeCitesEveryGrade ==
  pc = "return" =>
    LET narrative == ret.overallAssessment
        structured == [overall |-> locals.overallGrade,
                       academic |-> ret.assessmentSections[1].grade,
                       extracurricular |-> ret.assessmentSections[2].grade,
                       awards |-> ret.assessmentSections[3].grade]
    IN  /\ \A about \in DOMAIN structured :
             \E i \in 1..Len(narrative) :
               /\ narrative[i].about = about
               /\ narrative[i].grade = structured[about]
        /\ \A i \in 1..Len(narrative) :
             narrative[i].grade # "" =>
               /\ narrative[i].about \in DOMAIN structured
               /\ narrative[i].grade = structured[narrative[i].about]

\* the narrative has a piece with the sentence text
Lists(narrative, text) ==
  \E i \in 1..Len(narrative) : narrative[i].text = text

\* C15: the narrative lists each of the four weaknesses only when the
\* extractor's flag is false, lists the long-term commitment strength
\* whenever hasLongTermCommitment is true, and its major-fit score counts
\* the major-related activities and awards.
C15_NarrativeFollowsFeatureBag ==
  pc = "return" =>
    LET narrative == ret.overallAssessment
    IN  /\ Lists(narrative, "Few activities related to intended major.")
             => ~locals.hasMajorRelatedActivities
        /\ Lists(narrative, "No activities with significant time commitment.")
             => ~locals.hasSignificantTimeCommitment
        /\ Lists(narrative, "No state/regional achievements.")
             => ~locals.hasStateAwards
        /\ Lists(narrative, "No awards related to intended major.")
             => ~locals.hasMajorRelatedAwards
        /\ locals.hasLongTermCommitment
             => Lists(narrative, "Long-term commitment to activities.")
        /\ majorFitScore(NarrativeProfile(locals)) = majorFitScore(locals)

TierLists == << ivyPlus, tier1, tier2, tier3 >>

\* the positions of the lists with an entry that is a substring of name
MatchingLists(name) ==
  { k \in 1..Len(TierLists) :
      \E i \in 1..Len(TierLists[k]) : Includes(name, TierLists[k][i]) }

\* C17: the tier of a college is that of the earliest list, in the order
\* ivy-plus, tier1, tier2, tier3, with an entry that is a substring of the
\* lowercased name, and tier4 when no list has one.
C17_FirstMatchingTierWins ==
  pc = "return" =>
    LET matching == MatchingLists(ToLowerCase(args.college))
    IN  IF matching = {} THEN ret = "tier4"
        ELSE \E k \in matching :
               /\ \A j \in matching : k <= j
               /\ ret = << "ivy-plus", "tier1", "tier2", "tier3" >>[k]

\* a name with entries in two lists gets the earlier tier
C17_Witness ==
  /\ pc = "return"
  /\ Cardinality(MatchingLists(ToLowerCase(args.college))) >= 2
  /\ args.college # ToLowerCase(args.college)
  /\ ret = "ivy-plus"

\* the special-fit term of the call: what the raw percentage holds beyond
\* the base percentage and the three grade bonuses
SpecialFitTerm ==
  locals.rawPercentage
    - StateAdjustedBase(args.collegeName, args.collegeTier, args.state)
    - academicBonus(args.profile.academicGrade)
    - ecBonus(args.profile.extracurricularGrade)
    - awardsBonus(args.profile.awardsGrade)

\* C18: the special-fit term calculateCollegeChance adds is 0 or 5, never
\* more, and it is 0 whenever none of the excellence gates holds.
C18_SpecialFitIsSingleBonus ==
  pc = "return" =>
    /\ SpecialFitTerm \in {0, 5}
    /\ ~(\/ FGe(args.profile.gpa, Dec(39)) \/ args.profile.sat >= 1500
          \/ args.profile.act >= 34
          \/ FGe(args.profile.gpa, Dec(38))
          \/ args.profile.hasLeadershipRoles)
         => SpecialFitTerm = 0

\* C19: the GPA is replaced by 3.0 only when its string does not parse;
\* every GPA string that parses, 0 included, is scored at its parsed value,
\* and an unparsable weighted GPA, SAT, ACT or AP count is scored as 0.
C19_DefaultOnlyWhenUnparsable ==
  pc = "return" =>
    LET academics == args.formData.academics
        gpa == parseFloat(academics.gpa)
    IN  /\ locals.gpa = (IF gpa.nan THEN Dec(30) ELSE Dec(gpa.val))
        /\ parseFloat(academics.weightedGpa).nan => locals.weightedGpa = Dec(0)
        /\ parseInt(academics.sat).nan => locals.sat = 0
        /\ parseInt(academics.act).nan => locals.act = 0
        /\ parseInt(academics.apCourses).nan => locals.apCourses = 0

\* C20: for the all-empty submission createFallbackResponse returns, scores
\* the GPA as 3.0 and the SAT, ACT, AP, activity and award counts as 0, and
\* the plan has an ACADEMIC, an EXTRACURRICULAR and a HONORS item.
C20_EmptySubmissionIsScored ==
  pc = "return" /\ args.formData = EmptySubmission =>
    /\ locals.gpa = Dec(30)
    /\ locals.sat = 0 /\ locals.act = 0 /\ locals.apCourses = 0
    /\ locals.extracurricularCount = 0 /\ locals.awardCount = 0
    /\ \A category \in {"ACADEMIC", "EXTRACURRICULAR", "HONORS"} :
         \E i \in 1..Len(ret.improvementPlan) :
           ret.improvementPlan[i].category = category

\* the all-empty submission has been answered
C20_Witness ==
  /\ pc = "return"
  /\ args.formData = EmptySubmission
  /\ Len(ret.improvementPlan) > 0
  /\ Len(ret.collegeChances) = 1

\* C21 as stated: for a college flagged public the tier base is raised by 15
\* for an in-state applicant, lowered by 5 for an out-of-state applicant at
\* tier1 or tier2, and left alone for every other tier and residency value;
\* for any other college the residency value does not reach the result.
C21_ResidencyAdjustment ==
  pc = "return" =>
    LET adjustment == locals.rawPercentage
                      - BasePercentage(args.collegeTier)
                      - academicBonus(args.profile.academicGrade)
                      - ecBonus(args.profile.extracurricularGrade)
                      - awardsBonus(args.profile.awardsGrade)
                      - specialBonus(args.collegeName, args.majorName, args.profile)
    IN  IF isPublicUniversity(args.collegeName)
        THEN adjustment =
               (IF args.state = "in-state" THEN 15
                ELSE IF args.state = "out-of-state"
                        /\ args.collegeTier \in {"tier1", "tier2"}
                     THEN 0 - 5
                     ELSE 0)
        ELSE /\ adjustment = 0
             /\ \A other \in Residencies :
                  ret = calculateCollegeChance(args.collegeName, args.collegeTier, args.majorName, args.profile, other)

\* C21: for a college flagged public the tier base is raised by 15 for an
\* in-state applicant and lowered by 5 at tier1 or tier2 for every applicant
\* who is not in-state, international included; at the other tiers such an
\* applicant gets no adjustment, and for a college not flagged public the
\* residency value does not reach the result.
C21_NotInStateIsReduced ==
  pc = "return" =>
    LET adjustment == locals.rawPercentage
                      - BasePercentage(args.collegeTier)
                      - academicBonus(args.profile.academicGrade)
                      - ecBonus(args.profile.extracurricularGrade)
                      - awardsBonus(args.profile.awardsGrade)
                      - specialBonus(args.collegeName, args.majorName, args.profile)
    IN  IF isPublicUniversity(args.collegeName)
        THEN adjustment =
               (IF args.state = "in-state" THEN 15
                ELSE IF args.collegeTier \in {"tier1", "tier2"}
                     THEN 0 - 5
                     ELSE 0)
        ELSE /\ adjustment = 0
             /\ \A other \in Residencies :
                  ret = calculateCollegeChance(args.collegeName, args.collegeTier, args.majorName, args.profile, other)

C21_Witness ==
  /\ pc = "return"
  /\ isPublicUniversity(args.collegeName)
  /\ args.state = "international"
  /\ args.collegeTier = "tier1"
  /\ locals.rawPercentage < BasePercentage("tier1")
                            + academicBonus(args.profile.academicGrade)
                            + ecBonus(args.profile.extracurricularGrade)
                            + awardsBonus(args.profile.awardsGrade)
                            + specialBonus(args.collegeName, args.majorName, args.profile)

\* C22: raising the count, or switching one flag from false to true, with
\* the other inputs of calculateExtracurricularGrade or calculateAwardsGrade
\* held fixed, never yields a lower letter than the one returned.
C22_CategoryGradeMonotone ==
  (pc = "return" /\ args.category # "overall") =>
    /\ \A n \in args.count..MaxCount :
         gradeToNumber(CategoryGrade([args EXCEPT !.count = n])) >= gradeToNumber(ret)
    /\ \A i \in 1..4 :
         ~args.flags[i] =>
           gradeToNumber(CategoryGrade([args EXCEPT !.flags[i] = TRUE])) >= gradeToNumber(ret)

C22_Witness ==
  /\ pc = "return"
  /\ args.category # "overall"
  /\ args.count = 3
  /\ ~args.flags[1]
  /\ gradeToNumber(CategoryGrade([args EXCEPT !.flags[1] = TRUE])) > gradeToNumber(ret)
  /\ gradeToNumber(CategoryGrade([args EXCEPT !.count = 4])) > gradeToNumber(ret)

\* C23: the grade calculateOverallGrade returns is the letter the midpoint
\* threshold table assigns to 0.5 * academic + 0.3 * extracurricular
\* + 0.2 * awards (in tenths: 5a + 3e + 2w, a midpoint going to the higher
\* letter), so it lies between the lowest and the highest of the three
\* grades and is the common grade when the three are equal.
C23_OverallIsNearestLetter ==
  (pc = "return" /\ args.category = "overall") =>
    LET a == gradeToNumber(args.academic)
        e == gradeToNumber(args.extracurricular)
        w == gradeToNumber(args.awards)
        tenths == 5 * a + 3 * e + 2 * w
        overall == gradeToNumber(ret)
    IN  /\ 10 * overall - 5 <= tenths
        /\ tenths < 10 * overall + 5
        /\ Min(a, Min(e, w)) <= overall
        /\ overall <= Max(a, Max(e, w))
        /\ (a = e /\ e = w) => ret = args.academic

\* C24: an activity with a blank name and an honor with a blank title reach
\* no count and no flag, whatever their other fields hold: the features
\* extracted are those of the form without its blank entries, and removing
\* any one blank entry leaves the features, and with them every grade,
\* estimate and plan item of the response, unchanged.
C24_BlankEntriesAreInert ==
  pc = "return" =>
    LET form == args.formData
        IsBlank(text) == Trim(text) = <<>>
        Without(array, i) == SubSeq(array, 1, i - 1) \o SubSeq(array, i + 1, Len(array))
        NotBlankActivity(ec) == ~IsBlank(ec.activity)
        NotBlankHonor(honor) == ~IsBlank(honor.title)
        Same(other) ==
          LET f == Features(other, args.currentYear)
              response == BuildResponse(other, f)
          IN  /\ f = locals
              /\ response.collegeChances = ret.collegeChances
              /\ response.improvementPlan = ret.improvementPlan
              /\ response.assessmentSections = ret.assessmentSections
    IN  /\ \A i \in 1..Len(form.extracurriculars) :
             IsBlank(form.extracurriculars[i].activity) =>
               Same([form EXCEPT !.extracurriculars = Without(@, i)])
        /\ \A i \in 1..Len(form.honorsAwards) :
             IsBlank(form.honorsAwards[i].title) =>
               Same([form EXCEPT !.honorsAwards = Without(@, i)])
        /\ locals.extracurricularCount = Len(SelectSeq(form.extracurriculars, NotBlankActivity))
        /\ locals.awardCount = Len(SelectSeq(form.honorsAwards, NotBlankHonor))
        /\ (locals.extracurricularCount = 0) =>
             /\ ~locals.hasLeadershipRoles /\ ~locals.hasLongTermCommitment
             /\ ~locals.hasSignificantTimeCommitment
             /\ ~locals.hasMajorRelatedActivities
        /\ (locals.awardCount = 0) =>
             /\ ~locals.hasNationalAwards /\ ~locals.hasStateAwards
             /\ ~locals.hasRecentAwards /\ ~locals.hasMajorRelatedAwards

C24_Witness ==
  /\ pc = "return"
  /\ \E i \in 1..Len(args.formData.extracurriculars) :
       /\ Trim(args.formData.extracurriculars[i].activity) = <<>>
       /\ Includes(ToLowerCase(args.formData.extracurriculars[i].role), <<"f","o","u","n","d","e","r">>)
  /\ \E i \in 1..Len(args.formData.honorsAwards) :
       /\ Trim(args.formData.honorsAwards[i].title) = <<>>
       /\ args.formData.honorsAwards[i].level = "state"
  /\ locals.extracurricularCount = 0
  /\ locals.awardCount = 1
  /\ ~locals.hasLeadershipRoles
  /\ ~locals.hasStateAwards

\* C25: whatever handlers of the honors/awards step and of the colleges step
\* have run, the honorsAwards list and the colleges list of the form state
\* each hold at least one entry; right after Continue the step's list holds
\* only entries that are not blank, or exactly the one empty placeholder.
C25_ListsKeepAnEntry ==
  /\ Len(locals.formData.honorsAwards) >= 1
  /\ Len(locals.formData.colleges) >= 1
  /\ args.handler = "handleContinue" =>
       \/ \A i \in 1..Len(locals.formData.honorsAwards) :
            Trim(locals.formData.honorsAwards[i].title) # <<>>
       \/ locals.formData.honorsAwards = << [title |-> <<>>, level |-> "school", year |-> <<>>] >>
  /\ args.handler = "onSubmit" =>
       \/ \A i \in 1..Len(locals.formData.colleges) :
            Trim(locals.formData.colleges[i]) # <<>>
       \/ locals.formData.colleges = << <<>> >>

C25_Witness ==
  /\ args.handler = "onSubmit"
  /\ locals.formData.colleges = << <<>> >>
  /\ Len(locals.formData.honorsAwards) = 1
  /\ locals.formData.honorsAwards[1].level = "national"
  /\ locals.formData.honorsAwards[1].title # <<>>

\* C26: a call of calculateCollegeChance with tier ivy-plus returns a
\* percentage below 55, labelled Low with color red-500, whatever the
\* profile, major, residency and name.
C26_IvyPlusIsLow ==
  (pc = "return" /\ args.collegeTier = "ivy-plus") =>
    /\ ret.percentage < 55
    /\ ret.chance = "Low"
    /\ ret.color = "red-500"

C26_Witness ==
  /\ pc = "return"
  /\ args.collegeTier = "ivy-plus"
  /\ isPublicUniversity(args.collegeName)
  /\ args.state = "in-state"
  /\ specialBonus(args.collegeName, args.majorName, args.profile) = 15
  /\ ret.percentage = 54

\* C27: calculateCollegeChance labels High only a college flagged public
\* for an in-state applicant; for any other residency, and for a college
\* not flagged public, the percentage stays below 80.
C27_HighNeedsInStatePublic ==
  pc = "return" =>
    /\ ret.chance = "High" =>
         isPublicUniversity(args.collegeName) /\ args.state = "in-state"
    /\ (args.state # "in-state" \/ ~isPublicUniversity(args.collegeName)) =>
         ret.percentage < 80

C27_Witness ==
  /\ pc = "return"
  /\ ~isPublicUniversity(args.collegeName)
  /\ args.state = "in-state"
  /\ args.collegeTier = "tier4"
  /\ ret.percentage = 78
  /\ ret.chance = "Medium"

\* C28 as stated: with profile, major and residency fixed, of two colleges
\* that agree on the public flag and on the special-fit bonus the one in
\* the more selective tier never gets the higher percentage.
C28_SelectiveTierNeverHigher ==
  pc = "return" =>
    LET Rank(tier) == CASE tier = "ivy-plus" -> 1 [] tier = "tier1" -> 2
                        [] tier = "tier2" -> 3 [] tier = "tier3" -> 4
                        [] OTHER -> 5
        Agree(name) ==
          /\ isPublicUniversity(name) = isPublicUniversity(args.collegeName)
          /\ specialBonus(name, args.majorName, args.profile)
               = specialBonus(args.collegeName, args.majorName, args.profile)
    IN  \A name \in {args.collegeName, <<"a","m","h","e","r","s","t"," ","c","o","l","l","e","g","e">>,
                     <<"o","h","i","o"," ","s","t","a","t","e"," ","u","n","i","v","e","r","s","i","t","y">>},
           tier \in {t \in Tiers : Rank(t) > Rank(args.collegeTier)} :
          Agree(name) =>
            ret.percentage <= calculateCollegeChance(name, tier, args.majorName, args.profile, args.state).percentage

\* C28: with profile, major and residency fixed, of two colleges that agree
\* on the public flag and on the special-fit bonus the one in the more
\* selective tier never gets the higher percentage, except that among
\* colleges flagged public an applicant who is not in-state can get up to 2
\* points more at an ivy-plus college than at a tier1 college.
C28_SelectiveTierHigherOnlyIvyOverTier1 ==
  pc = "return" =>
    LET Rank(tier) == CASE tier = "ivy-plus" -> 1 [] tier = "tier1" -> 2
                        [] tier = "tier2" -> 3 [] tier = "tier3" -> 4
                        [] OTHER -> 5
        Agree(name) ==
          /\ isPublicUniversity(name) = isPublicUniversity(args.collegeName)
          /\ specialBonus(name, args.majorName, args.profile)
               = specialBonus(args.collegeName, args.majorName, args.profile)
        Excepted(tier) ==
          /\ args.collegeTier = "ivy-plus" /\ tier = "tier1"
          /\ isPublicUniversity(args.collegeName)
          /\ args.state # "in-state"
    IN  \A name \in {args.collegeName, <<"a","m","h","e","r","s","t"," ","c","o","l","l","e","g","e">>,
                     <<"o","h","i","o"," ","s","t","a","t","e"," ","u","n","i","v","e","r","s","i","t","y">>},
           tier \in {t \in Tiers : Rank(t) > Rank(args.collegeTier)} :
          Agree(name) =>
            ret.percentage <=
              calculateCollegeChance(name, tier, args.majorName, args.profile, args.state).percentage
              + (IF Excepted(tier) THEN 2 ELSE 0)

C28_Witness ==
  /\ pc = "return"
  /\ args.collegeTier = "ivy-plus"
  /\ isPublicUniversity(args.collegeName)
  /\ args.state = "out-of-state"
  /\ ret.percentage =
       calculateCollegeChance(args.collegeName, "tier1", args.majorName, args.profile, args.state).percentage + 2

\* C29: a college whose lowercased name is itself an entry of one of the
\* four static lists is classified into the tier of that list.
C29_ListedNameGetsOwnTier ==
  pc = "return" =>
    \A k \in 1..Len(TierLists) :
      (\E i \in 1..Len(TierLists[k]) : ToLowerCase(args.college) = TierLists[k][i])
        => ret = << "ivy-plus", "tier1", "tier2", "tier3" >>[k]

\* C30: after any saveUserResult calls the ids stored are pairwise distinct
\* and grow in the order of the calls, and getUserResults(u) returns the
\* results of the calls made with userId u, in the order of those calls and
\* nothing else: the empty list for a user who never saved.
C30_ResultsPerUserInSaveOrder ==
  LET CallsOf(u) == SelectSeq([k \in 1..Len(args) |-> k], LAMBDA k : args[k].userId = u)
      Stored(u) == IF u \in DOMAIN locals.savedUserResults
                   THEN locals.savedUserResults[u] ELSE << >>
      \* the id stored for the k-th call
      IdOf(k) == LET u == args[k].userId
                     j == CHOOSE i \in 1..Len(CallsOf(u)) : CallsOf(u)[i] = k
                 IN  Stored(u)[j].id
  IN  /\ \A u \in 1..MaxUserId :
           /\ Len(Stored(u)) = Len(CallsOf(u))
           /\ \A j \in 1..Len(Stored(u)) :
                /\ Stored(u)[j].userId = u
                /\ Stored(u)[j].formData = args[CallsOf(u)[j]].formData
      /\ \A k1 \in 1..Len(args), k2 \in 1..Len(args) :
           k1 < k2 => IdOf(k1) < IdOf(k2)
      /\ pc = "getUserResults" => ret.results = Stored(ret.userId)
      /\ pc = "saveUserResult" => ret.id = IdOf(Len(args))

C30_Witness ==
  /\ pc = "getUserResults"
  /\ Len(args) = 3
  /\ args[1].userId = 1 /\ args[2].userId = 2 /\ args[3].userId = 1
  /\ ret.userId = 1
  /\ Len(ret.results) = 2
  /\ ret.results[1].id < ret.results[2].id

====
